---- MODULE Spec2Model ----
(***************************************************************************)
(* A model of the TETRIS-99 board engine (TetrisGameEngine), its pieces    *)
(* (TetrisPiece), its 7-bag piece generator (PieceGenerator), the move     *)
(* search of the AIPlayer and the line consumption of the BattleSystem.    *)
(*                                                                         *)
(* Every method of the engine is a pure operator from an engine record to  *)
(* [e |-> the engine afterwards, ret |-> the value returned].  The values  *)
(* of Math.random() a method consumes are passed in as arguments.          *)
(* A board cell is the string "null" (empty) or the `type` of the object   *)
(* stored in it: a piece type or "garbage" (its colour is a function of    *)
(* the type and is not modelled).                                          *)
(***************************************************************************)
EXTENDS Integers, Sequences, FiniteSets, TLC

VARIABLES engine,   \* the TetrisGameEngine instance
          last,     \* the last call made on it: [op, args, ret]
          calls,    \* number of calls made so far
          gen,      \* a stand-alone PieceGenerator
          window,   \* draws from gen since the refill that opened the window
          inWindow, \* number of draws counted in window
          previewed, \* what the last preview() returned, less the draws made since
          battle    \* a BattleSystem instance with its players

vars == <<engine, last, calls, gen, window, inWindow, previewed, battle>>

(***************************** bounds **************************************)
\* calls explored on one engine
MaxCalls == 4
\* draws explored on the stand-alone generator
MaxDraws == 14
\* draws made before a window of consecutive draws opens
MaxOffset == 6
\* largest count passed to preview()
MaxPreview == 8
\* moves an AI player executes on one engine
MaxPlies == 8
\* rows of the deepest well searched
MaxWell == 16
\* players of a battle
MaxPlayers == 3
\* sendAttack calls explored on one battle
MaxSends == 1

(***************************** constants ***********************************)
Width == 10
Height == 20
SpawnX == 3
LockDelay == 500
InitialDropInterval == 1000

Null == "null"
Garbage == "garbage"
Undefined == "undefined"

\* the battle variable of a specification that constructs no BattleSystem
NoBattle == [players |-> <<>>]

PieceTypes == {"I", "O", "T", "S", "Z", "J", "L"}

\* the literal ['I','O','T','S','Z','J','L'] of refillBag
pieces == <<"I", "O", "T", "S", "Z", "J", "L">>

PIECE_SHAPES ==
  [ I |-> << << <<0,0,0,0>>, <<1,1,1,1>>, <<0,0,0,0>>, <<0,0,0,0>> >>,
             << <<0,0,1,0>>, <<0,0,1,0>>, <<0,0,1,0>>, <<0,0,1,0>> >>,
             << <<0,0,0,0>>, <<0,0,0,0>>, <<1,1,1,1>>, <<0,0,0,0>> >>,
             << <<0,1,0,0>>, <<0,1,0,0>>, <<0,1,0,0>>, <<0,1,0,0>> >> >>,
    O |-> << << <<0,0,0,0>>, <<0,1,1,0>>, <<0,1,1,0>>, <<0,0,0,0>> >> >>,
    T |-> << << <<0,0,0,0>>, <<0,1,0,0>>, <<1,1,1,0>>, <<0,0,0,0>> >>,
             << <<0,0,0,0>>, <<0,1,0,0>>, <<0,1,1,0>>, <<0,1,0,0>> >>,
             << <<0,0,0,0>>, <<0,0,0,0>>, <<1,1,1,0>>, <<0,1,0,0>> >>,
             << <<0,0,0,0>>, <<0,1,0,0>>, <<1,1,0,0>>, <<0,1,0,0>> >> >>,
    S |-> << << <<0,0,0,0>>, <<0,1,1,0>>, <<1,1,0,0>>, <<0,0,0,0>> >>,
             << <<0,0,0,0>>, <<0,1,0,0>>, <<0,1,1,0>>, <<0,0,1,0>> >>,
             << <<0,0,0,0>>, <<0,0,0,0>>, <<0,1,1,0>>, <<1,1,0,0>> >>,
             << <<0,0,0,0>>, <<1,0,0,0>>, <<1,1,0,0>>, <<0,1,0,0>> >> >>,
    Z |-> << << <<0,0,0,0>>, <<1,1,0,0>>, <<0,1,1,0>>, <<0,0,0,0>> >>,
             << <<0,0,0,0>>, <<0,0,1,0>>, <<0,1,1,0>>, <<0,1,0,0>> >>,
             << <<0,0,0,0>>, <<0,0,0,0>>, <<1,1,0,0>>, <<0,1,1,0>> >>,
             << <<0,0,0,0>>, <<0,1,0,0>>, <<1,1,0,0>>, <<1,0,0,0>> >> >>,
    J |-> << << <<0,0,0,0>>, <<1,0,0,0>>, <<1,1,1,0>>, <<0,0,0,0>> >>,
             << <<0,0,0,0>>, <<0,1,1,0>>, <<0,1,0,0>>, <<0,1,0,0>> >>,
             << <<0,0,0,0>>, <<0,0,0,0>>, <<1,1,1,0>>, <<0,0,1,0>> >>,
             << <<0,0,0,0>>, <<0,1,0,0>>, <<0,1,0,0>>, <<1,1,0,0>> >> >>,
    L |-> << << <<0,0,0,0>>, <<0,0,1,0>>, <<1,1,1,0>>, <<0,0,0,0>> >>,
             << <<0,0,0,0>>, <<0,1,0,0>>, <<0,1,0,0>>, <<0,1,1,0>> >>,
             << <<0,0,0,0>>, <<0,0,0,0>>, <<1,1,1,0>>, <<1,0,0,0>> >>,
             << <<0,0,0,0>>, <<1,1,0,0>>, <<0,1,0,0>>, <<0,1,0,0>> >> >> ]

(***************************** TetrisPiece *********************************)
\* new TetrisPiece(type, x, y); color and shape are functions of type
TetrisPiece(type, x, y) == [type |-> type, x |-> x, y |-> y, rotation |-> 0]

\* the value null in a piece-valued field
NullPiece == [type |-> Null, x |-> 0, y |-> 0, rotation |-> 0]

IsNullPiece(p) == p.type = Null

\* this.shape.length
NumRotations(type) == Len(PIECE_SHAPES[type])

getCurrentShape(p) == PIECE_SHAPES[p.type][p.rotation + 1]

\* the (row, col) pairs of the 4x4 grid in the order of getBlocks' two loops
GridOrder == [k \in 1..16 |-> [row |-> (k - 1) \div 4, col |-> (k - 1) % 4]]

\* the occupied (row, col) pairs of every shape, in getBlocks' order
ShapeBlocks ==
  [t \in PieceTypes |->
     [r \in 1..NumRotations(t) |->
        SelectSeq(GridOrder,
                  LAMBDA c : PIECE_SHAPES[t][r][c.row + 1][c.col + 1] /= 0)]]

getBlocks(p) ==
  LET occ == ShapeBlocks[p.type][p.rotation + 1]
  IN  [i \in 1..Len(occ) |-> [x |-> p.x + occ[i].col, y |-> p.y + occ[i].row]]

move(p, dx, dy) == [p EXCEPT !.x = @ + dx, !.y = @ + dy]

\* board[y] && board[y][x] : truthy iff the row exists and the cell holds an object
Truthy(board, x, y) ==
  /\ y >= 0 /\ y < Len(board)
  /\ x >= 0 /\ x < Len(board[y + 1])
  /\ board[y + 1][x + 1] /= Null

\* isTSpin that wants all four corners occupied
isTSpinAllFour(p, board) ==
  IF p.type /= "T" THEN FALSE
  ELSE LET corners == << [x |-> p.x,     y |-> p.y],
                         [x |-> p.x + 2, y |-> p.y],
                         [x |-> p.x,     y |-> p.y + 2],
                         [x |-> p.x + 2, y |-> p.y + 2] >>
           occupied(c) == \/ c.x < 0 \/ c.x >= 10 \/ c.y < 0 \/ c.y >= 20
                          \/ Truthy(board, c.x, c.y)
           occupiedCorners == Cardinality({i \in 1..4 : occupied(corners[i])})
       IN  occupiedCorners >= 4

\* the bounds 10 and 20 are literals of isTSpin, whatever the engine's size
isTSpin(p, board) ==
  IF p.type /= "T" THEN FALSE
  ELSE LET corners == << [x |-> p.x,     y |-> p.y],
                         [x |-> p.x + 2, y |-> p.y],
                         [x |-> p.x,     y |-> p.y + 2],
                         [x |-> p.x + 2, y |-> p.y + 2] >>
           occupied(c) == \/ c.x < 0 \/ c.x >= 10 \/ c.y < 0 \/ c.y >= 20
                          \/ Truthy(board, c.x, c.y)
           occupiedCorners == Cardinality({i \in 1..4 : occupied(corners[i])})
       IN  occupiedCorners >= 3

(***************************** PieceGenerator ******************************)
\* a swap that loses a[i]: a[i] = a[j] without the matching a[j] = a[i]
SwapLossy(a, i, j) == [a EXCEPT ![i + 1] = a[j + 1]]

\* [a[i], a[j]] = [a[j], a[i]] on a 0-based array
Swap(a, i, j) == [a EXCEPT ![i + 1] = a[j + 1], ![j + 1] = a[i + 1]]

\* the Fisher-Yates loop from index i down to 1; js[i] is the value of
\* Math.floor(Math.random() * (i + 1)) drawn at index i
RECURSIVE shuffleFrom(_, _, _)
shuffleFrom(bag, js, i) ==
  IF i > 0 THEN shuffleFrom(Swap(bag, i, js[i]), js, i - 1) ELSE bag

refillBag(g, js) == [g EXCEPT !.bag = shuffleFrom(pieces, js, Len(pieces) - 1)]

\* new PieceGenerator()
NewPieceGenerator(js) == refillBag([bag |-> <<>>], js)

\* Array.prototype.pop: [rest, the element removed or undefined]
Pop(a) == IF Len(a) = 0 THEN [rest |-> a, val |-> Undefined]
          ELSE [rest |-> SubSeq(a, 1, Len(a) - 1), val |-> a[Len(a)]]

\* getNext with the test `bag.length <= 1`, which drops the last piece of a bag
getNextEarlyRefill(g, js) ==
  LET g1 == IF Len(g.bag) <= 1 THEN refillBag(g, js) ELSE g
      p  == Pop(g1.bag)
  IN  [g |-> [g1 EXCEPT !.bag = p.rest], ret |-> TetrisPiece(p.val, SpawnX, 0)]

\* getNext: [g |-> the generator afterwards, ret |-> the new piece]
getNext(g, js) ==
  LET g1 == IF Len(g.bag) = 0 THEN refillBag(g, js) ELSE g
      p  == Pop(g1.bag)
  IN  [g |-> [g1 EXCEPT !.bag = p.rest], ret |-> TetrisPiece(p.val, SpawnX, 0)]

\* the loop of preview from iteration i on: tempBag is the copy of the bag, jss
\* the draws of the shuffles the loop has still to make, acc the list so far
RECURSIVE previewFrom(_, _, _, _, _)
previewFrom(tempBag, count, i, jss, acc) ==
  IF i >= count THEN acc
  ELSE LET refill == Len(tempBag) = 0
           bag1 == IF refill THEN shuffleFrom(pieces, Head(jss), Len(pieces) - 1)
                   ELSE tempBag
           p == Pop(bag1)
       IN  previewFrom(p.rest, count, i + 1, IF refill THEN Tail(jss) ELSE jss,
                       Append(acc, p.val))

\* preview(count): [g |-> the generator afterwards, ret |-> the list of types]
preview(g, count, jss) == [g |-> g, ret |-> previewFrom(g.bag, count, 0, jss, <<>>)]

\* every sequence of values the six Math.floor(Math.random() * (i + 1)) can take
AllShuffles ==
  { <<j1, j2, j3, j4, j5, j6>> :
      j1 \in 0..1, j2 \in 0..2, j3 \in 0..3, j4 \in 0..4, j5 \in 0..5, j6 \in 0..6 }

(***************************** wall kicks **********************************)
\* WALL_KICK_DATA[dataKey], keyed by <<from, to>> for the key `${from}->${to}`
WALL_KICK_DATA ==
  [ JLSTZ |->
      ( <<0, 1>> :> << <<-1, 0>>, <<-1, 1>>,  <<0, -2>>, <<-1, -2>> >> @@
        <<1, 0>> :> << <<1, 0>>,  <<1, -1>>,  <<0, 2>>,  <<1, 2>> >>   @@
        <<1, 2>> :> << <<1, 0>>,  <<1, -1>>,  <<0, 2>>,  <<1, 2>> >>   @@
        <<2, 1>> :> << <<-1, 0>>, <<-1, 1>>,  <<0, -2>>, <<-1, -2>> >> @@
        <<2, 3>> :> << <<1, 0>>,  <<1, 1>>,   <<0, -2>>, <<1, -2>> >>  @@
        <<3, 2>> :> << <<-1, 0>>, <<-1, -1>>, <<0, 2>>,  <<-1, 2>> >>  @@
        <<3, 0>> :> << <<-1, 0>>, <<-1, -1>>, <<0, 2>>,  <<-1, 2>> >>  @@
        <<0, 3>> :> << <<1, 0>>,  <<1, 1>>,   <<0, -2>>, <<1, -2>> >> ),
    I |->
      ( <<0, 1>> :> << <<-2, 0>>, <<1, 0>>,  <<-2, -1>>, <<1, 2>> >>   @@
        <<1, 0>> :> << <<2, 0>>,  <<-1, 0>>, <<2, 1>>,   <<-1, -2>> >> @@
        <<1, 2>> :> << <<-1, 0>>, <<2, 0>>,  <<-1, 2>>,  <<2, -1>> >>  @@
        <<2, 1>> :> << <<1, 0>>,  <<-2, 0>>, <<1, -2>>,  <<-2, 1>> >>  @@
        <<2, 3>> :> << <<2, 0>>,  <<-1, 0>>, <<2, 1>>,   <<-1, -2>> >> @@
        <<3, 2>> :> << <<-2, 0>>, <<1, 0>>,  <<-2, -1>>, <<1, 2>> >>   @@
        <<3, 0>> :> << <<1, 0>>,  <<-2, 0>>, <<1, -2>>,  <<-2, 1>> >>  @@
        <<0, 3>> :> << <<-1, 0>>, <<2, 0>>,  <<-1, 2>>,  <<2, -1>> >> ) ]

\* getWallKickData that reads the kicks of every piece from the JLSTZ table
getWallKickDataOneTable(pieceType, fromRotation, toRotation) ==
  IF pieceType = "O" THEN << <<0, 0>> >>
  ELSE LET key   == <<fromRotation, toRotation>>
           table == WALL_KICK_DATA["JLSTZ"]
       IN  << <<0, 0>> >> \o (IF key \in DOMAIN table THEN table[key] ELSE <<>>)

getWallKickData(pieceType, fromRotation, toRotation) ==
  IF pieceType = "O" THEN << <<0, 0>> >>
  ELSE LET key     == <<fromRotation, toRotation>>
           dataKey == IF pieceType = "I" THEN "I" ELSE "JLSTZ"
           table   == WALL_KICK_DATA[dataKey]
       IN  << <<0, 0>> >> \o (IF key \in DOMAIN table THEN table[key] ELSE <<>>)

(***************************** TetrisGameEngine ****************************)
\* Array(this.height).fill().map(() => Array(this.width).fill(null))
createEmptyBoard(e) == [y \in 1..e.height |-> [x \in 1..e.width |-> Null]]

NewStats == [totalPieces |-> 0, totalLines |-> 0, singles |-> 0, doubles |-> 0,
             triples |-> 0, tetrises |-> 0, tSpins |-> 0, perfectClears |-> 0]

\* isColliding returning from inside the loop after its first block
collidingFromFirstOnly(e, blocks, i) ==
  IF i > Len(blocks) THEN FALSE
  ELSE LET block == blocks[i]
       IN  IF \/ block.x < 0 \/ block.x >= e.width
              \/ block.y < 0 \/ block.y >= e.height
           THEN TRUE
           ELSE e.board[block.y + 1][block.x + 1] /= Null

\* the loop of isColliding over blocks[i..], with its two early returns
RECURSIVE collidingFrom(_, _, _)
collidingFrom(e, blocks, i) ==
  IF i > Len(blocks) THEN FALSE
  ELSE LET block == blocks[i]
       IN  IF \/ block.x < 0 \/ block.x >= e.width
              \/ block.y < 0 \/ block.y >= e.height
           THEN TRUE
           ELSE IF e.board[block.y + 1][block.x + 1] /= Null
                THEN TRUE
                ELSE collidingFrom(e, blocks, i + 1)

isColliding(e, piece) == collidingFrom(e, getBlocks(piece), 1)

\* resetLockTimer without `this.isLocking = false`
resetLockTimerKeepsFlag(e) == [e EXCEPT !.lockTimer = 0]

resetLockTimer(e) == [e EXCEPT !.lockTimer = 0, !.isLocking = FALSE]

\* spawnNewPiece without its game-over check
spawnNewPieceUnchecked(e, js) ==
  LET n == getNext(e.pieceGenerator, js)
  IN  [e EXCEPT !.currentPiece = e.nextPiece,
                !.nextPiece = n.ret,
                !.pieceGenerator = n.g,
                !.canHold = TRUE,
                !.isLocking = FALSE,
                !.lockTimer = 0,
                !.stats.totalPieces = @ + 1]

spawnNewPiece(e, js) ==
  LET n  == getNext(e.pieceGenerator, js)
      e1 == [e EXCEPT !.currentPiece = e.nextPiece,
                      !.nextPiece = n.ret,
                      !.pieceGenerator = n.g,
                      !.canHold = TRUE,
                      !.isLocking = FALSE,
                      !.lockTimer = 0,
                      !.stats.totalPieces = @ + 1]
  IN  IF isColliding(e1, e1.currentPiece) THEN [e1 EXCEPT !.gameOver = TRUE] ELSE e1

initializeGame(e, js) ==
  LET n == getNext(e.pieceGenerator, js)
  IN  spawnNewPiece([e EXCEPT !.board = createEmptyBoard(e),
                              !.nextPiece = n.ret,
                              !.pieceGenerator = n.g], js)

\* the field assignments shared by the constructor and reset(), then initializeGame()
reset(e, js) ==
  initializeGame(
    [ width |-> e.width, height |-> e.height,
      board |-> createEmptyBoard(e),
      currentPiece |-> NullPiece, nextPiece |-> NullPiece, holdPiece |-> NullPiece,
      canHold |-> TRUE,
      pieceGenerator |-> NewPieceGenerator(js),
      score |-> 0, level |-> 1, lines |-> 0, combo |-> 0,
      lastClearWasTSpin |-> FALSE, gameOver |-> FALSE,
      dropTimer |-> 0, dropInterval |-> InitialDropInterval,
      lockDelay |-> LockDelay, lockTimer |-> 0, isLocking |-> FALSE,
      stats |-> NewStats ], js)

\* new TetrisGameEngine(width, height)
NewTetrisGameEngine(width, height, js) == reset([width |-> width, height |-> height], js)

\* movePiece restoring only x after a collision
movePieceRestoresXOnly(e, dx, dy) ==
  IF IsNullPiece(e.currentPiece) \/ e.gameOver THEN [e |-> e, ret |-> FALSE]
  ELSE LET originalX == e.currentPiece.x
           e1 == [e EXCEPT !.currentPiece = move(@, dx, dy)]
       IN  IF isColliding(e1, e1.currentPiece)
           THEN [e |-> [e1 EXCEPT !.currentPiece.x = originalX], ret |-> FALSE]
           ELSE [e |-> IF dy = 0 THEN resetLockTimer(e1) ELSE e1, ret |-> TRUE]

movePiece(e, dx, dy) ==
  IF IsNullPiece(e.currentPiece) \/ e.gameOver THEN [e |-> e, ret |-> FALSE]
  ELSE LET originalX == e.currentPiece.x
           originalY == e.currentPiece.y
           e1 == [e EXCEPT !.currentPiece = move(@, dx, dy)]
       IN  IF isColliding(e1, e1.currentPiece)
           THEN [e |-> [e1 EXCEPT !.currentPiece.x = originalX,
                                  !.currentPiece.y = originalY],
                 ret |-> FALSE]
           ELSE [e |-> IF dy = 0 THEN resetLockTimer(e1) ELSE e1, ret |-> TRUE]

\* the kick loop without the x -= dx, y -= dy after a colliding kick
RECURSIVE tryKicksNoRevert(_, _, _, _)
tryKicksNoRevert(e, kickData, i, originalRotation) ==
  IF i > Len(kickData)
  THEN [e |-> [e EXCEPT !.currentPiece.rotation = originalRotation], ret |-> FALSE]
  ELSE LET dx == kickData[i][1]
           dy == kickData[i][2]
           e1 == [e EXCEPT !.currentPiece.x = @ + dx, !.currentPiece.y = @ + dy]
       IN  IF ~isColliding(e1, e1.currentPiece)
           THEN [e |-> resetLockTimer(e1), ret |-> TRUE]
           ELSE tryKicksNoRevert(e1, kickData, i + 1, originalRotation)

\* the kick loop of rotatePiece from entry i of kickData on
RECURSIVE tryKicks(_, _, _, _)
tryKicks(e, kickData, i, originalRotation) ==
  IF i > Len(kickData)
  THEN [e |-> [e EXCEPT !.currentPiece.rotation = originalRotation], ret |-> FALSE]
  ELSE LET dx == kickData[i][1]
           dy == kickData[i][2]
           e1 == [e EXCEPT !.currentPiece.x = @ + dx, !.currentPiece.y = @ + dy]
       IN  IF ~isColliding(e1, e1.currentPiece)
           THEN [e |-> resetLockTimer(e1), ret |-> TRUE]
           ELSE tryKicks([e1 EXCEPT !.currentPiece.x = @ - dx,
                                    !.currentPiece.y = @ - dy],
                         kickData, i + 1, originalRotation)

rotatePiece(e, direction) ==
  IF IsNullPiece(e.currentPiece) \/ e.gameOver THEN [e |-> e, ret |-> FALSE]
  ELSE LET originalRotation == e.currentPiece.rotation
           n == NumRotations(e.currentPiece.type)
           newRotation == (originalRotation + direction + n) % n
           kickData == getWallKickData(e.currentPiece.type, originalRotation, newRotation)
       IN  tryKicks([e EXCEPT !.currentPiece.rotation = newRotation],
                    kickData, 1, originalRotation)

\* isPerfectClear that takes garbage cells for empty ones
isPerfectClearIgnoresGarbage(e) ==
  \A y \in 1..Len(e.board) : \A x \in 1..Len(e.board[y]) : e.board[y][x] \in {Null, Garbage}

isPerfectClear(e) ==
  \A y \in 1..Len(e.board) : \A x \in 1..Len(e.board[y]) : e.board[y][x] = Null

updateLevel(e) ==
  LET newLevel == (e.lines \div 10) + 1
  IN  IF newLevel > e.level
      THEN LET d == 1000 - (newLevel - 1) * 50
           IN  [e EXCEPT !.level = newLevel,
                         !.dropInterval = IF d > 50 THEN d ELSE 50]
      ELSE e

\* the rows y in 0..height-1 with every cell non-null, ascending
FullRows(e) ==
  SelectSeq([y \in 1..e.height |-> y - 1],
            LAMBDA y : \A x \in 1..Len(e.board[y + 1]) : e.board[y + 1][x] /= Null)

\* board.splice(row, 1) without the unshift of an empty row
RemoveRowNoInsert(board, row, width) ==
  SubSeq(board, 1, row) \o SubSeq(board, row + 2, Len(board))

\* board.splice(row, 1); board.unshift(Array(width).fill(null))
RemoveRow(board, row, width) ==
  << [x \in 1..width |-> Null] >>
    \o SubSeq(board, 1, row) \o SubSeq(board, row + 2, Len(board))

\* fullRows.forEach(...) taking the full rows from the bottom one upwards
RECURSIVE removeRowsFromBottomUp(_, _, _, _)
removeRowsFromBottomUp(board, fullRows, i, width) ==
  IF i > Len(fullRows) THEN board
  ELSE removeRowsFromBottomUp(RemoveRow(board, fullRows[Len(fullRows) - i + 1], width),
                              fullRows, i + 1, width)

\* fullRows.forEach(...) from entry i on
RECURSIVE removeRowsFrom(_, _, _, _)
removeRowsFrom(board, fullRows, i, width) ==
  IF i > Len(fullRows) THEN board
  ELSE removeRowsFrom(RemoveRow(board, fullRows[i], width), fullRows, i + 1, width)

\* clearLines without the `this.combo = 0` of a lock that clears no row
clearLinesKeepsCombo(e) ==
  LET fullRows == FullRows(e)
      k == Len(fullRows)
  IN  IF k = 0 THEN [e |-> e, ret |-> 0]
      ELSE LET e1 == [e EXCEPT !.board = removeRowsFrom(@, fullRows, 1, e.width),
                               !.lines = @ + k,
                               !.stats.totalLines = @ + k,
                               !.combo = @ + 1,
                               !.stats.singles  = IF k = 1 THEN @ + 1 ELSE @,
                               !.stats.doubles  = IF k = 2 THEN @ + 1 ELSE @,
                               !.stats.triples  = IF k = 3 THEN @ + 1 ELSE @,
                               !.stats.tetrises = IF k = 4 THEN @ + 1 ELSE @]
               e2 == IF isPerfectClear(e1)
                     THEN [e1 EXCEPT !.stats.perfectClears = @ + 1] ELSE e1
           IN  [e |-> updateLevel(e2), ret |-> k]

clearLines(e) ==
  LET fullRows == FullRows(e)
      k == Len(fullRows)
  IN  IF k = 0 THEN [e |-> [e EXCEPT !.combo = 0], ret |-> 0]
      ELSE LET e1 == [e EXCEPT !.board = removeRowsFrom(@, fullRows, 1, e.width),
                               !.lines = @ + k,
                               !.stats.totalLines = @ + k,
                               !.combo = @ + 1,
                               !.stats.singles  = IF k = 1 THEN @ + 1 ELSE @,
                               !.stats.doubles  = IF k = 2 THEN @ + 1 ELSE @,
                               !.stats.triples  = IF k = 3 THEN @ + 1 ELSE @,
                               !.stats.tetrises = IF k = 4 THEN @ + 1 ELSE @]
               e2 == IF isPerfectClear(e1)
                     THEN [e1 EXCEPT !.stats.perfectClears = @ + 1] ELSE e1
           IN  [e |-> updateLevel(e2), ret |-> k]

\* calculateScore with the combo bonus 50 x combo instead of 50 x (combo - 1)
calculateScoreComboOffByOne(e, lines, isTSpinLock) ==
  LET table == IF isTSpinLock
               THEN CASE lines = 0 -> 400 [] lines = 1 -> 800
                      [] lines = 2 -> 1200 [] lines = 3 -> 1600 [] OTHER -> 0
               ELSE CASE lines = 1 -> 100 [] lines = 2 -> 300
                      [] lines = 3 -> 500 [] lines = 4 -> 800 [] OTHER -> 0
      withCombo == IF e.combo > 1 THEN table + 50 * e.combo ELSE table
      baseScore == IF isPerfectClear(e) THEN withCombo * 10 ELSE withCombo
  IN  [e EXCEPT !.stats.tSpins = IF isTSpinLock THEN @ + 1 ELSE @,
                !.lastClearWasTSpin = isTSpinLock,
                !.score = @ + baseScore * e.level]

calculateScore(e, lines, isTSpinLock) ==
  LET table == IF isTSpinLock
               THEN CASE lines = 0 -> 400 [] lines = 1 -> 800
                      [] lines = 2 -> 1200 [] lines = 3 -> 1600 [] OTHER -> 0
               ELSE CASE lines = 1 -> 100 [] lines = 2 -> 300
                      [] lines = 3 -> 500 [] lines = 4 -> 800 [] OTHER -> 0
      withCombo == IF e.combo > 1 THEN table + 50 * (e.combo - 1) ELSE table
      baseScore == IF isPerfectClear(e) THEN withCombo * 10 ELSE withCombo
  IN  [e EXCEPT !.stats.tSpins = IF isTSpinLock THEN @ + 1 ELSE @,
                !.lastClearWasTSpin = isTSpinLock,
                !.score = @ + baseScore * e.level]

\* getAttackLines that looks every clear up in the table of normal clears
getAttackLinesNormalTable(e, lines, isTSpinLock) ==
  LET table == CASE lines = 1 -> 0 [] lines = 2 -> 1
                 [] lines = 3 -> 2 [] lines = 4 -> 4 [] OTHER -> 0
      withCombo == IF e.combo > 1
                   THEN table + (IF e.combo - 1 < 4 THEN e.combo - 1 ELSE 4)
                   ELSE table
  IN  IF isPerfectClear(e) THEN withCombo + 10 ELSE withCombo

\* getAttackLines(lines, isTSpin), on the engine as it is when called
getAttackLines(e, lines, isTSpinLock) ==
  LET table == IF isTSpinLock
               THEN CASE lines = 0 -> 0 [] lines = 1 -> 2
                      [] lines = 2 -> 4 [] lines = 3 -> 6 [] OTHER -> 0
               ELSE CASE lines = 1 -> 0 [] lines = 2 -> 1
                      [] lines = 3 -> 2 [] lines = 4 -> 4 [] OTHER -> 0
      withCombo == IF e.combo > 1
                   THEN table + (IF e.combo - 1 < 4 THEN e.combo - 1 ELSE 4)
                   ELSE table
  IN  IF isPerfectClear(e) THEN withCombo + 10 ELSE withCombo

\* blocks.forEach(...) of lockPiece from block i on
RECURSIVE placeBlocksFrom(_, _, _, _)
placeBlocksFrom(e, blocks, i, type) ==
  IF i > Len(blocks) THEN e
  ELSE LET block == blocks[i]
           e1 == IF /\ block.y >= 0 /\ block.y < e.height
                    /\ block.x >= 0 /\ block.x < e.width
                 THEN [e EXCEPT !.board[block.y + 1][block.x + 1] = type]
                 ELSE e
       IN  placeBlocksFrom(e1, blocks, i + 1, type)

lockPiece(e, js) ==
  IF IsNullPiece(e.currentPiece) THEN e
  ELSE LET e1 == placeBlocksFrom(e, getBlocks(e.currentPiece), 1, e.currentPiece.type)
           spin == isTSpin(e1.currentPiece, e1.board)
           c  == clearLines(e1)
           e3 == calculateScore(c.e, c.ret, spin)
       IN  spawnNewPiece(e3, js)

\* while (this.movePiece(0, 1)) dropDistance++
RECURSIVE dropLoop(_, _)
dropLoop(e, dropDistance) ==
  LET r == movePiece(e, 0, 1)
  IN  IF r.ret THEN dropLoop(r.e, dropDistance + 1)
      ELSE [e |-> r.e, ret |-> dropDistance]

\* hardDrop that adds one point per row dropped instead of two
hardDropOnePerRow(e, js) ==
  IF IsNullPiece(e.currentPiece) \/ e.gameOver THEN [e |-> e, ret |-> 0]
  ELSE LET d  == dropLoop(e, 0)
           e1 == lockPiece(d.e, js)
       IN  [e |-> [e1 EXCEPT !.score = @ + d.ret], ret |-> d.ret]

hardDrop(e, js) ==
  IF IsNullPiece(e.currentPiece) \/ e.gameOver THEN [e |-> e, ret |-> 0]
  ELSE LET d  == dropLoop(e, 0)
           e1 == lockPiece(d.e, js)
       IN  [e |-> [e1 EXCEPT !.score = @ + d.ret * 2], ret |-> d.ret]

softDrop(e) == movePiece(e, 0, 1)

\* the body of the method holdPiece() (lines 222-248)
holdPieceMethod(e, js) ==
  IF ~e.canHold \/ IsNullPiece(e.currentPiece) \/ e.gameOver THEN [e |-> e, ret |-> FALSE]
  ELSE LET currentType == e.currentPiece.type
           e1 == IF ~IsNullPiece(e.holdPiece)
                 THEN LET holdType == e.holdPiece.type
                      IN  [e EXCEPT !.holdPiece = TetrisPiece(currentType, SpawnX, 0),
                                    !.currentPiece =
                                       [TetrisPiece(holdType, SpawnX, 0)
                                          EXCEPT !.x = (e.width \div 2) - 2, !.y = 0]]
                 ELSE spawnNewPiece(
                        [e EXCEPT !.holdPiece = TetrisPiece(currentType, SpawnX, 0)], js)
       IN  [e |-> [e1 EXCEPT !.canHold = FALSE], ret |-> TRUE]

\* the call engine.holdPiece(): the constructor and reset() assign the own
\* property this.holdPiece (null, later a piece), which shadows the method of
\* the same name on the prototype, so the call throws a TypeError
holdPiece(e, js) ==
  IF e.holdPiece \in {NullPiece} \cup {TetrisPiece(t, SpawnX, 0) : t \in PieceTypes}
  THEN [e |-> e, ret |-> "TypeError"]
  ELSE holdPieceMethod(e, js)

\* update without the gameOver test of its first line
updateIgnoresGameOver(e, deltaTime, js) ==
  IF IsNullPiece(e.currentPiece) THEN e
  ELSE LET e1 == [e EXCEPT !.dropTimer = @ + deltaTime]
           e2 == IF e1.dropTimer >= e1.dropInterval
                 THEN LET m  == movePiece(e1, 0, 1)
                          e3 == IF ~m.ret /\ ~m.e.isLocking
                                THEN [m.e EXCEPT !.isLocking = TRUE, !.lockTimer = 0]
                                ELSE m.e
                      IN  [e3 EXCEPT !.dropTimer = 0]
                 ELSE e1
       IN  IF e2.isLocking
           THEN LET e4 == [e2 EXCEPT !.lockTimer = @ + deltaTime]
                IN  IF e4.lockTimer >= e4.lockDelay THEN lockPiece(e4, js) ELSE e4
           ELSE e2

update(e, deltaTime, js) ==
  IF e.gameOver \/ IsNullPiece(e.currentPiece) THEN e
  ELSE LET e1 == [e EXCEPT !.dropTimer = @ + deltaTime]
           e2 == IF e1.dropTimer >= e1.dropInterval
                 THEN LET m  == movePiece(e1, 0, 1)
                          e3 == IF ~m.ret /\ ~m.e.isLocking
                                THEN [m.e EXCEPT !.isLocking = TRUE, !.lockTimer = 0]
                                ELSE m.e
                      IN  [e3 EXCEPT !.dropTimer = 0]
                 ELSE e1
       IN  IF e2.isLocking
           THEN LET e4 == [e2 EXCEPT !.lockTimer = @ + deltaTime]
                IN  IF e4.lockTimer >= e4.lockDelay THEN lockPiece(e4, js) ELSE e4
           ELSE e2

\* Array.prototype.shift, n times
RECURSIVE shiftRows(_, _)
shiftRows(board, n) ==
  IF n = 0 THEN board
  ELSE shiftRows(IF Len(board) = 0 THEN board ELSE Tail(board), n - 1)

\* garbageLine[hole - 1] = null: no hole at all when hole = 0
garbageLineOffByOne(width, hole) ==
  [x \in 1..width |-> IF x = hole THEN Null ELSE Garbage]

\* Array(width).fill(garbage) with garbageLine[hole] = null
garbageLine(width, hole) == [x \in 1..width |-> IF x - 1 = hole THEN Null ELSE Garbage]

\* the second loop of receiveAttack; holes[i] is Math.floor(Math.random() * width)
\* of its iteration i
RECURSIVE pushGarbage(_, _, _, _)
pushGarbage(board, width, holes, i) ==
  IF i > Len(holes) THEN board
  ELSE pushGarbage(Append(board, garbageLine(width, holes[i])), width, holes, i + 1)

\* receiveAttack without its guard and with do-while loops, which run once for
\* lines = 0
receiveAttackDoWhile(e, lines, holes) ==
  LET n  == IF lines <= 0 THEN 1 ELSE lines
      hs == IF lines <= 0 THEN <<0>> ELSE holes
      e1 == [e EXCEPT !.board = pushGarbage(shiftRows(@, n), e.width, hs, 1)]
  IN  IF ~IsNullPiece(e1.currentPiece) /\ isColliding(e1, e1.currentPiece)
      THEN [e1 EXCEPT !.gameOver = TRUE]
      ELSE e1

receiveAttack(e, lines, holes) ==
  IF lines <= 0 THEN e
  ELSE LET e1 == [e EXCEPT !.board = pushGarbage(shiftRows(@, lines), e.width, holes, 1)]
       IN  IF ~IsNullPiece(e1.currentPiece) /\ isColliding(e1, e1.currentPiece)
           THEN [e1 EXCEPT !.gameOver = TRUE]
           ELSE e1

(***************************** BattleSystem *********************************)
\* the body of the forEach of processAttacks for one attacker that is alive:
\* [e |-> its engine afterwards, ret |-> the attack lines sent, 0 for none]
processAttacks(e) ==
  IF e.lines > 0
  THEN [e |-> [e EXCEPT !.lines = 0],
        ret |-> getAttackLines(e, e.lines, e.lastClearWasTSpin)]
  ELSE [e |-> e, ret |-> 0]

(***************************** AIPlayer *************************************)
\* getAIParams(difficulty); the weights are held in tenths (-0.7 is -7), so that
\* an evaluation score is an integer number of tenths
getAIParams(difficulty) ==
  LET params ==
        [ easy   |-> [lookAhead |-> 1, heightWeight |-> -5, linesWeight |-> 8,
                      holesWeight |-> -3, bumpinessWeight |-> -1,
                      aggregateHeightWeight |-> -1, errorRate |-> 15],
          medium |-> [lookAhead |-> 2, heightWeight |-> -7, linesWeight |-> 10,
                      holesWeight |-> -5, bumpinessWeight |-> -2,
                      aggregateHeightWeight |-> -2, errorRate |-> 8],
          hard   |-> [lookAhead |-> 3, heightWeight |-> -9, linesWeight |-> 12,
                      holesWeight |-> -7, bumpinessWeight |-> -3,
                      aggregateHeightWeight |-> -3, errorRate |-> 3],
          expert |-> [lookAhead |-> 4, heightWeight |-> -10, linesWeight |-> 15,
                      holesWeight |-> -10, bumpinessWeight |-> -4,
                      aggregateHeightWeight |-> -4, errorRate |-> 1] ]
  IN  IF difficulty \in DOMAIN params THEN params[difficulty] ELSE params["medium"]

\* the flat bonuses of evaluatePosition, in tenths
TSpinBonus == 100 * 10
PerfectClearBonus == 1000 * 10

\* row.every(cell => cell !== null)
RowFull(row) == \A x \in 1..Len(row) : row[x] /= Null

countClearedLines(board) == Cardinality({ y \in 1..Len(board) : RowFull(board[y]) })

\* board.filter(row => !full), then unshift empty rows while length < height
removeClearedLines(board, width, height) ==
  LET newBoard == SelectSeq(board, LAMBDA row : ~RowFull(row))
      missing  == IF Len(newBoard) < height THEN height - Len(newBoard) ELSE 0
  IN  [y \in 1..missing |-> [x \in 1..width |-> Null]] \o newBoard

\* the smallest element of a non-empty set of numbers
Minimum(S) == CHOOSE m \in S : \A n \in S : m <= n

\* size - y for the first y of a loop that found something at the ys, else 0
FirstFrom(ys, size) == IF ys = {} THEN 0 ELSE size - Minimum(ys)

\* board.length - y at the first row y that holds some non-null cell, else 0
getMaxHeight(board) ==
  FirstFrom({ y \in 0..(Len(board) - 1) :
                \E x \in 1..Len(board[y + 1]) : board[y + 1][x] /= Null },
            Len(board))

\* height - y at the first non-null cell of column x, 0 for an empty column
ColumnHeight(board, x, height) ==
  FirstFrom({ y \in 0..(height - 1) : board[y + 1][x + 1] /= Null }, height)

RECURSIVE SumTo(_, _)
SumTo(f, n) == IF n < 0 THEN 0 ELSE f[n] + SumTo(f, n - 1)

\* the null cells below the first non-null cell of their column
countHoles(board, width, height) ==
  SumTo([x \in 0..(width - 1) |->
           Cardinality({ y \in 0..(height - 1) :
                           /\ board[y + 1][x + 1] = Null
                           /\ \E y0 \in 0..(y - 1) : board[y0 + 1][x + 1] /= Null })],
        width - 1)

Abs(n) == IF n < 0 THEN -n ELSE n

getBumpiness(board, width, height) ==
  SumTo([i \in 0..(width - 2) |->
           Abs(ColumnHeight(board, i, height) - ColumnHeight(board, i + 1, height))],
        width - 2)

getAggregateHeight(board, width, height) ==
  SumTo([x \in 0..(width - 1) |-> ColumnHeight(board, x, height)], width - 1)

\* AIPlayer.isPerfectClear(board)
aiIsPerfectClear(board) ==
  \A y \in 1..Len(board) : \A x \in 1..Len(board[y]) : board[y][x] = Null

\* piece.clone(): a new piece object with the fields of p
clone(p) == [TetrisPiece(p.type, p.x, p.y) EXCEPT !.rotation = p.rotation]

\* tempBoard: a copy of the rows of the board with the blocks of piece written
\* into the copy
TempBoard(e, piece) == placeBlocksFrom(e, getBlocks(piece), 1, piece.type).board

\* the total of evaluatePosition, in tenths, from clearedLines and boardAfterClear
positionScore(e, aiParams, piece, clearedLines, boardAfterClear) ==
  aiParams.linesWeight * clearedLines * clearedLines
  + aiParams.heightWeight * getMaxHeight(boardAfterClear)
  + aiParams.holesWeight * countHoles(boardAfterClear, e.width, e.height)
  + aiParams.bumpinessWeight * getBumpiness(boardAfterClear, e.width, e.height)
  + aiParams.aggregateHeightWeight * getAggregateHeight(boardAfterClear, e.width, e.height)
  + (IF piece.type = "T" /\ isTSpin(piece, e.board) THEN TSpinBonus ELSE 0)
  + (IF aiIsPerfectClear(boardAfterClear) THEN PerfectClearBonus ELSE 0)

\* evaluatePosition with its metrics taken on tempBoard, the full rows still in
evaluateTempUncleared(e, aiParams, piece, tempBoard) ==
  positionScore(e, aiParams, piece, countClearedLines(tempBoard), tempBoard)

\* evaluatePosition from tempBoard on
evaluateTemp(e, aiParams, piece, tempBoard) ==
  positionScore(e, aiParams, piece, countClearedLines(tempBoard),
                removeClearedLines(tempBoard, e.width, e.height))

\* evaluatePosition(piece) with tempBoard = this.gameEngine.board, not a copy
evaluatePositionInPlace(e, aiParams, piece) ==
  [e |-> [e EXCEPT !.board = TempBoard(e, piece)],
   ret |-> evaluateTemp(e, aiParams, piece, TempBoard(e, piece))]

\* evaluatePosition(piece): [e |-> the engine afterwards, ret |-> the score in
\* tenths]; the blocks are written into a copy, so the engine is as before
evaluatePosition(e, aiParams, piece) ==
  [e |-> e, ret |-> evaluateTemp(e, aiParams, piece, TempBoard(e, piece))]

\* the value null of bestMove
NullMove == [isNull |-> TRUE, x |-> 0, y |-> 0, rotation |-> 0, score |-> 0]

\* while (!isColliding(testPiece)) testPiece.y++
RECURSIVE dropTest(_, _)
dropTest(e, testPiece) ==
  IF ~isColliding(e, testPiece) THEN dropTest(e, [testPiece EXCEPT !.y = @ + 1])
  ELSE testPiece

\* the piece findBestMove tests in iteration (rotation, x): a clone of the
\* current piece, dropped until it collides, then one row back up
TestPiece(e, rotation, x) ==
  [dropTest(e, [clone(e.currentPiece) EXCEPT !.rotation = rotation, !.x = x, !.y = 0])
     EXCEPT !.y = @ - 1]

\* the rest of an iteration of findBestMove, from `if (isColliding) continue` on:
\* [e |-> the engine afterwards, c |-> the candidate move or NullMove]
scored(v, rotation, testPiece) ==
  [e |-> v.e,
   c |-> [isNull |-> FALSE, x |-> testPiece.x, y |-> testPiece.y,
          rotation |-> rotation, score |-> v.ret]]

candidateOf(e, aiParams, rotation, testPiece) ==
  IF isColliding(e, testPiece) THEN [e |-> e, c |-> NullMove]
  ELSE scored(evaluatePosition(e, aiParams, testPiece), rotation, testPiece)

\* the k-th iteration when the inner loop starts at x = 0 instead of x = -2
candidateFromZero(e, aiParams, k) ==
  candidateOf(e, aiParams, k \div (e.width + 4),
              TestPiece(e, k \div (e.width + 4), k % (e.width + 4)))

\* the k-th iteration of the nested loops of findBestMove: rotation outer,
\* x = -2 .. width + 1 inner
candidate(e, aiParams, k) ==
  candidateOf(e, aiParams, k \div (e.width + 4),
              TestPiece(e, k \div (e.width + 4), (k % (e.width + 4)) - 2))

\* `if (score >= bestScore)`, which keeps the last maximum
betterOrEqual(c, bestMove) == ~c.isNull /\ (bestMove.isNull \/ c.score >= bestMove.score)

\* `if (score > bestScore)`; bestMove.isNull stands for bestScore = -Infinity
better(c, bestMove) == ~c.isNull /\ (bestMove.isNull \/ c.score > bestMove.score)

\* the iterations of the nested loops of findBestMove, in order, each run on
\* the engine e: <<[e |-> the engine after the iteration, c |-> its candidate]>>
Iterations(e, aiParams) ==
  SubSeq([k \in 1..(NumRotations(e.currentPiece.type) * (e.width + 4)) |->
            candidate(e, aiParams, k - 1)],
         1, NumRotations(e.currentPiece.type) * (e.width + 4))

\* bestMove after the iterations from the i-th on, as an index into its (0: null)
RECURSIVE bestFrom(_, _, _)
bestFrom(its, i, best) ==
  IF i > Len(its) THEN best
  ELSE IF better(its[i].c, IF best = 0 THEN NullMove ELSE its[best].c)
       THEN bestFrom(its, i + 1, i)
       ELSE bestFrom(its, i + 1, best)

\* the engine after the loops: while no iteration changes the engine, every
\* iteration runs on e as Iterations has it, and the engine stays e; otherwise
\* the engine after the first iteration that changes it
engineAfter(its, e) ==
  IF \A i \in 1..Len(its) : its[i].e = e THEN e
  ELSE its[Minimum({ i \in 1..Len(its) : its[i].e /= e })].e

\* what findBestMove returns once the loops have left the index best
findIn(its, e, best) ==
  [e |-> engineAfter(its, e), ret |-> IF best = 0 THEN NullMove ELSE its[best].c]

\* findBestMove from the loops on
findOver(its, e) == findIn(its, e, bestFrom(its, 1, 0))

\* findBestMove(): [e |-> the engine afterwards, ret |-> the move or NullMove]
findBestMove(e, aiParams) ==
  IF IsNullPiece(e.currentPiece) THEN [e |-> e, ret |-> NullMove]
  ELSE findOver(Iterations(e, aiParams), e)

\* while (currentPiece.rotation !== move.rotation) rotatePiece(1): a rotatePiece
\* that returns false leaves the rotation as it is, and the loop never ends
RECURSIVE rotateTo(_, _)
RECURSIVE rotateWith(_, _)
rotateWith(r, rotation) ==
  IF r.ret THEN rotateTo(r.e, rotation) ELSE [e |-> r.e, ret |-> FALSE]

rotateTo(e, rotation) ==
  IF e.currentPiece.rotation = rotation THEN [e |-> e, ret |-> TRUE]
  ELSE rotateWith(rotatePiece(e, 1), rotation)

\* the engine after `if (dx !== 0) movePiece(dx, 0)`, r the outcome of the
\* rotation loop
translated(r, bestMove) ==
  IF bestMove.x - r.e.currentPiece.x /= 0
  THEN movePiece(r.e, bestMove.x - r.e.currentPiece.x, 0).e
  ELSE r.e

\* executeBestMove from the translation on, r the outcome of the rotation loop
translateAndDrop(r, bestMove, js) ==
  IF ~r.ret THEN [e |-> r.e, ret |-> "diverges"]
  ELSE [e |-> hardDrop(translated(r, bestMove), js).e, ret |-> Undefined]

\* executeBestMove(move): ret is "undefined" on return and "diverges" when the
\* rotation loop never ends
executeBestMove(e, bestMove, js) ==
  IF IsNullPiece(e.currentPiece) THEN [e |-> e, ret |-> Undefined]
  ELSE translateAndDrop(rotateTo(e, bestMove.rotation), bestMove, js)

\* AIPlayer.sendAttack(): the attack lines of the engine's line counter
sendAttack(e) ==
  [e |-> e,
   ret |-> IF e.lines > 0 THEN getAttackLines(e, e.lines, e.lastClearWasTSpin) ELSE 0]

(***************************** inputs ***************************************)
\* the values of Math.random() the engine specification draws, as fractions;
\* one value serves every draw of one call
RandomValues == { [num |-> 0, den |-> 1], [num |-> 1, den |-> 2] }

\* Math.floor(r * n)
floorRandom(r, n) == (r.num * n) \div r.den

\* the six draws of one refillBag when Math.random() returns r
ShuffleOf(r) == [i \in 1..6 |-> floorRandom(r, i + 1)]

\* the hole columns of one receiveAttack(n) when Math.random() returns r
HolesOf(r, n, width) == [i \in 1..n |-> floorRandom(r, width)]

\* update(deltaTime)
DeltaTimes == {400, 600}
\* receiveAttack(lines)
AttackSizes == {0, 4, 17, 21}

\* the values of Math.random() a call on e can consume in a refillBag: any, when
\* the bag is empty and the call may draw from it; otherwise none is consumed
ShuffleInputs(e) ==
  IF Len(e.pieceGenerator.bag) = 0 THEN {ShuffleOf(r) : r \in RandomValues}
  ELSE {ShuffleOf([num |-> 0, den |-> 1])}

Call(op, args, ret) == [op |-> op, args |-> args, ret |-> ret]

(***************************** the engine specification ********************)
Init ==
  /\ \E r \in RandomValues : engine = NewTetrisGameEngine(Width, Height, ShuffleOf(r))
  /\ last = Call("new", <<>>, Undefined)
  /\ calls = 0
  /\ gen = [bag |-> <<>>]
  /\ window = [t \in PieceTypes |-> 0]
  /\ inWindow = 0
  /\ previewed = <<>>
  /\ battle = NoBattle

\* a call on the engine: the generator of the other specification is untouched
Called == /\ calls < MaxCalls
          /\ calls' = calls + 1
          /\ UNCHANGED <<gen, window, inWindow, previewed, battle>>

Update ==
  \E deltaTime \in DeltaTimes, js \in ShuffleInputs(engine) :
    /\ Called
    /\ engine' = update(engine, deltaTime, js)
    /\ last' = Call("update", <<deltaTime>>, Undefined)

MovePiece ==
  \E m \in { <<-1, 0>>, <<1, 0>>, <<0, 1>> } :
    LET res == movePiece(engine, m[1], m[2])
    IN  /\ Called
        /\ engine' = res.e
        /\ last' = Call("movePiece", m, res.ret)

RotatePiece ==
  \E direction \in {1, -1} :
    LET res == rotatePiece(engine, direction)
    IN  /\ Called
        /\ engine' = res.e
        /\ last' = Call("rotatePiece", <<direction>>, res.ret)

HardDrop ==
  \E js \in ShuffleInputs(engine) :
    LET res == hardDrop(engine, js)
    IN  /\ Called
        /\ engine' = res.e
        /\ last' = Call("hardDrop", <<>>, res.ret)

SoftDrop ==
  LET res == softDrop(engine)
  IN  /\ Called
      /\ engine' = res.e
      /\ last' = Call("softDrop", <<>>, res.ret)

HoldPiece ==
  \E js \in ShuffleInputs(engine) :
    LET res == holdPiece(engine, js)
    IN  /\ Called
        /\ engine' = res.e
        /\ last' = Call("holdPiece", <<>>, res.ret)

LockPiece ==
  \E js \in ShuffleInputs(engine) :
    /\ Called
    /\ engine' = lockPiece(engine, js)
    /\ last' = Call("lockPiece", <<>>, Undefined)

ReceiveAttack ==
  \E lines \in AttackSizes, r \in RandomValues :
    /\ Called
    /\ engine' = receiveAttack(engine, lines, HolesOf(r, lines, engine.width))
    /\ last' = Call("receiveAttack", <<lines>>, Undefined)

Reset ==
  \E r \in RandomValues :
    /\ Called
    /\ engine' = reset(engine, ShuffleOf(r))
    /\ last' = Call("reset", <<>>, Undefined)

Next ==
  \/ Update
  \/ MovePiece
  \/ RotatePiece
  \/ HardDrop
  \/ SoftDrop
  \/ HoldPiece
  \/ LockPiece
  \/ ReceiveAttack
  \/ Reset

Spec == Init /\ [][Next]_vars

(***************************** the collision specification *****************)
\* isColliding applied to probe pieces on boards the engine reaches: a new
\* engine, after one receiveAttack, and after a hardDrop on top of that
ProbeEngines ==
  LET e0 == NewTetrisGameEngine(Width, Height, ShuffleOf([num |-> 0, den |-> 1]))
      attacked == { receiveAttack(e0, n, HolesOf(r, n, e0.width)) :
                      n \in AttackSizes, r \in RandomValues }
  IN  attacked \cup { hardDrop(e, ShuffleOf([num |-> 0, den |-> 1])).e : e \in attacked }

ProbePieces ==
  { [type |-> t, x |-> x, y |-> y, rotation |-> rot] :
      t \in PieceTypes, rot \in 0..3, x \in -2..(Width - 2), y \in -1..(Height - 2) }

InitColl ==
  /\ engine \in ProbeEngines
  /\ last = Call("new", <<>>, Undefined)
  /\ calls = 0
  /\ gen = [bag |-> <<>>]
  /\ window = [t \in PieceTypes |-> 0]
  /\ inWindow = 0
  /\ previewed = <<>>
  /\ battle = NoBattle

IsColliding ==
  /\ calls = 0
  /\ calls' = 1
  /\ \E piece \in ProbePieces :
    /\ piece.rotation < NumRotations(piece.type)
    /\ last' = Call("isColliding", <<piece>>, isColliding(engine, piece))
    /\ UNCHANGED <<engine, gen, window, inWindow, previewed, battle>>

NextColl == IsColliding

SpecColl == InitColl /\ [][NextColl]_vars

(***************************** the generator specification *****************)
InitBag ==
  /\ \E js \in AllShuffles : gen = NewPieceGenerator(js)
  /\ window = [t \in PieceTypes |-> 0]
  /\ inWindow = 0
  /\ previewed = <<>>
  /\ battle = NoBattle
  /\ engine = NewTetrisGameEngine(Width, Height, ShuffleOf([num |-> 0, den |-> 1]))
  /\ last = Call("new", <<>>, Undefined)
  /\ calls = 0

\* one getNext(); the window of draws restarts at a refill once it is complete
GetNext ==
  LET refill == Len(gen.bag) = 0
  IN  \E js \in (IF refill THEN AllShuffles ELSE {ShuffleOf([num |-> 0, den |-> 1])}) :
        LET res == getNext(gen, js)
            type == res.ret.type
            counted == IF type \in PieceTypes THEN {type} ELSE {}
        IN  /\ calls < MaxDraws
            /\ calls' = calls + 1
            /\ gen' = res.g
            /\ last' = Call("getNext", <<>>, res.ret)
            /\ IF refill /\ inWindow = Len(pieces)
               THEN /\ window' = [t \in PieceTypes |-> IF t \in counted THEN 1 ELSE 0]
                    /\ inWindow' = 1
               ELSE IF inWindow < Len(pieces)
                    THEN /\ window' = [t \in PieceTypes |->
                                         IF t \in counted THEN window[t] + 1 ELSE window[t]]
                         /\ inWindow' = inWindow + 1
                    ELSE UNCHANGED <<window, inWindow>>
            /\ UNCHANGED <<engine, previewed, battle>>

NextBag == GetNext

SpecBag == InitBag /\ [][NextBag]_vars

(***************************** the draw-window specification ***************)
\* a window of WindowLen consecutive draws (2 x 7 - 1) that opens after 0 to
\* MaxOffset draws from a new generator
WindowLen == 2 * Len(pieces) - 1

\* the draws a getNext() on g can consume; those of a refill take every value
\* of the three draws that choose the first three pieces of the bag
RefillInputs(g) ==
  IF Len(g.bag) = 0 THEN { js \in AllShuffles : js[1] = 0 /\ js[2] = 0 /\ js[3] = 0 }
  ELSE {ShuffleOf([num |-> 0, den |-> 1])}

InitWindow == InitBag

\* one getNext() before the window opens
DrawBefore ==
  \E js \in RefillInputs(gen) :
    LET res == getNext(gen, js)
    IN  /\ inWindow = 0
        /\ calls < MaxOffset
        /\ calls' = calls + 1
        /\ gen' = res.g
        /\ last' = Call("getNext", <<>>, res.ret)
        /\ UNCHANGED <<window, inWindow, engine, previewed, battle>>

\* one getNext() counted in the window
DrawInWindow ==
  \E js \in RefillInputs(gen) :
    LET res == getNext(gen, js)
        type == res.ret.type
    IN  /\ inWindow < WindowLen
        /\ calls' = calls + 1
        /\ gen' = res.g
        /\ last' = Call("getNext", <<>>, res.ret)
        /\ window' = [t \in PieceTypes |-> IF t = type THEN window[t] + 1 ELSE window[t]]
        /\ inWindow' = inWindow + 1
        /\ UNCHANGED <<engine, previewed, battle>>

NextWindow == DrawBefore \/ DrawInWindow

SpecWindow == InitWindow /\ [][NextWindow]_vars

(***************************** the preview specification *******************)
\* the draws of the shuffles one preview(count) can make when every
\* Math.random() of the call returns r: at most one shuffle per 7 pieces and one more
PreviewShuffles(r, count) == [k \in 1..(count \div Len(pieces) + 1) |-> ShuffleOf(r)]

InitPreview ==
  /\ \E r \in RandomValues : gen = NewPieceGenerator(ShuffleOf(r))
  /\ window = [t \in PieceTypes |-> 0]
  /\ inWindow = 0
  /\ previewed = <<>>
  /\ battle = NoBattle
  /\ engine = NewTetrisGameEngine(Width, Height, ShuffleOf([num |-> 0, den |-> 1]))
  /\ last = Call("new", <<>>, Undefined)
  /\ calls = 0

Preview ==
  \E count \in 0..MaxPreview, r \in RandomValues :
    LET res == preview(gen, count, PreviewShuffles(r, count))
    IN  /\ calls < MaxDraws
        /\ calls' = calls + 1
        /\ gen' = res.g
        /\ previewed' = res.ret
        /\ last' = Call("preview", <<count>>, res.ret)
        /\ UNCHANGED <<engine, window, inWindow, battle>>

\* one getNext() after a preview
DrawPreviewed ==
  \E js \in (IF Len(gen.bag) = 0 THEN {ShuffleOf(r) : r \in RandomValues}
              ELSE {ShuffleOf([num |-> 0, den |-> 1])}) :
    LET res == getNext(gen, js)
    IN  /\ calls < MaxDraws
        /\ calls' = calls + 1
        /\ gen' = res.g
        /\ previewed' = IF Len(previewed) = 0 THEN previewed ELSE Tail(previewed)
        /\ last' = Call("getNext", <<>>, res.ret)
        /\ UNCHANGED <<engine, window, inWindow, battle>>

NextPreview == Preview \/ DrawPreviewed

SpecPreview == InitPreview /\ [][NextPreview]_vars

(***************************** the play specification **********************)
\* An AIPlayer of the default difficulty plays on its engine, one decision
\* after the other as makeMove makes them (findBestMove, then executeBestMove
\* of the move found), and the BattleSystem consumes the engine's line counter.
\* The engines played on are new engines that have received one attack.
Difficulty == "medium"

\* Math.random() of every refillBag during play
PlayRandom == [num |-> 0, den |-> 1]

\* [r |-> Math.random() of the constructor's refillBag, n |-> lines of the
\* attack received, c |-> the hole column of every garbage row]
InitPlay ==
  /\ engine \in
      { receiveAttack(NewTetrisGameEngine(Width, Height, ShuffleOf(s.r)),
                      s.n, [i \in 1..s.n |-> s.c]) :
          s \in { [r |-> [num |-> 0, den |-> 1], n |-> 4, c |-> 0],
                  [r |-> [num |-> 0, den |-> 1], n |-> 17, c |-> 5],
                  [r |-> [num |-> 1, den |-> 3], n |-> 4, c |-> 0],
                  [r |-> [num |-> 1, den |-> 3], n |-> 14, c |-> 0] } }
  /\ last = Call("new", <<>>, Undefined)
  /\ calls = 0
  /\ gen = [bag |-> <<>>]
  /\ window = [t \in PieceTypes |-> 0]
  /\ inWindow = 0
  /\ previewed = <<>>
  /\ battle = NoBattle

\* findBestMove(), once per decision
FindBestMove ==
  /\ calls < MaxPlies
  /\ last.op \notin {"findBestMove", "evaluatePosition", "sendAttack"}
  /\ \E res \in {findBestMove(engine, getAIParams(Difficulty))} :
       /\ engine' = res.e
       /\ last' = Call("findBestMove", <<>>, res.ret)
  /\ UNCHANGED <<calls, gen, window, inWindow, previewed, battle>>

\* evaluatePosition(piece, rotation) on a probe piece that does not collide:
\* the current piece in rotation 0 or 1 at column 0 or 4, dropped as
\* findBestMove drops it
EvaluatePosition ==
  /\ calls < MaxPlies
  /\ last.op = "findBestMove"
  /\ ~IsNullPiece(engine.currentPiece)
  /\ \E rotation \in {0, 1}, x \in {0, 4} :
       /\ rotation < NumRotations(engine.currentPiece.type)
       /\ ~isColliding(engine, TestPiece(engine, rotation, x))
       /\ \E res \in {evaluatePosition(engine, getAIParams(Difficulty),
                                        TestPiece(engine, rotation, x))} :
            /\ engine' = res.e
            /\ last' = Call("evaluatePosition",
                            <<TestPiece(engine, rotation, x), rotation>>, res.ret)
  /\ UNCHANGED <<calls, gen, window, inWindow, previewed, battle>>

\* `if (bestMove) this.executeBestMove(bestMove)` of makeMove
ExecuteBestMove ==
  /\ calls < MaxPlies
  /\ last.op = "findBestMove"
  /\ ~last.ret.isNull
  /\ \E res \in {executeBestMove(engine, last.ret, ShuffleOf(PlayRandom))} :
       /\ engine' = res.e
       /\ last' = Call("executeBestMove", <<last.ret>>, res.ret)
  /\ calls' = calls + 1
  /\ UNCHANGED <<gen, window, inWindow, previewed, battle>>

\* sendAttack(), asked after a move
SendAttack ==
  /\ calls < MaxPlies
  /\ last.op = "executeBestMove"
  /\ \E res \in {sendAttack(engine)} :
       /\ engine' = res.e
       /\ last' = Call("sendAttack", <<>>, res.ret)
  /\ UNCHANGED <<calls, gen, window, inWindow, previewed, battle>>

\* processAttacks() of a tick in which the player is alive and its engine has
\* lines to consume (it changes nothing otherwise)
ProcessAttacks ==
  /\ calls < MaxPlies
  /\ ~engine.gameOver
  /\ engine.lines > 0
  /\ \E res \in {processAttacks(engine)} :
       /\ engine' = res.e
       /\ last' = Call("processAttacks", <<>>, res.ret)
  /\ UNCHANGED <<calls, gen, window, inWindow, previewed, battle>>

NextPlay ==
  \/ FindBestMove
  \/ EvaluatePosition
  \/ ExecuteBestMove
  \/ SendAttack
  \/ ProcessAttacks

SpecPlay == InitPlay /\ [][NextPlay]_vars

(***************************** the well specification **********************)
\* An AIPlayer of the default difficulty searches, and then moves, on a new
\* engine whose first piece is I and that has received one attack of n rows
\* whose holes are all in one column: a board whose only gap is a well.
InitWell ==
  /\ engine \in
      { receiveAttack(NewTetrisGameEngine(Width, Height, ShuffleOf([num |-> 0, den |-> 1])),
                      n, [i \in 1..n |-> c]) : n \in 4..MaxWell, c \in 0..(Width - 1) }
  /\ last = Call("new", <<>>, Undefined)
  /\ calls = 0
  /\ gen = [bag |-> <<>>]
  /\ window = [t \in PieceTypes |-> 0]
  /\ inWindow = 0
  /\ previewed = <<>>
  /\ battle = NoBattle

\* findBestMove() of the first decision
WellSearch ==
  /\ last.op = "new"
  /\ \E res \in {findBestMove(engine, getAIParams(Difficulty))} :
       /\ engine' = res.e
       /\ last' = Call("findBestMove", <<>>, res.ret)
  /\ UNCHANGED <<calls, gen, window, inWindow, previewed, battle>>

\* executeBestMove of the move found
WellMove ==
  /\ last.op = "findBestMove"
  /\ ~last.ret.isNull
  /\ \E res \in {executeBestMove(engine, last.ret, ShuffleOf(PlayRandom))} :
       /\ engine' = res.e
       /\ last' = Call("executeBestMove", <<last.ret>>, res.ret)
  /\ calls' = calls + 1
  /\ UNCHANGED <<gen, window, inWindow, previewed, battle>>

NextWell == WellSearch \/ WellMove

SpecWell == InitWell /\ [][NextWell]_vars

(***************************** the high-stack specification ****************)
\* An AIPlayer of the default difficulty searches, and then moves, on a new
\* engine whose first piece is any of the seven and that has received one
\* attack of 16 or 17 rows whose holes are all in one column: the stack
\* leaves the piece four or three free rows.
\* [i \in 1..6 |-> ...] are the draws of a shuffle that deals pieces[k] first
InitHigh ==
  /\ engine \in
      { receiveAttack(NewTetrisGameEngine(Width, Height,
                                          [i \in 1..6 |-> IF i = 6 THEN k - 1 ELSE i]),
                      n, [i \in 1..n |-> c]) :
          k \in 1..Len(pieces), n \in {16, 17}, c \in 0..(Width - 1) }
  /\ last = Call("new", <<>>, Undefined)
  /\ calls = 0
  /\ gen = [bag |-> <<>>]
  /\ window = [t \in PieceTypes |-> 0]
  /\ inWindow = 0
  /\ previewed = <<>>
  /\ battle = NoBattle

SpecHigh == InitHigh /\ [][NextWell]_vars

(***************************** the resting-piece specification *************)
\* The first piece is turned, shifted and timed by update() on a new engine
\* that has received one attack: 17 rows leave the piece room for one gravity
\* step, 18 rows leave it resting where it spawned.
InitRest ==
  /\ engine \in
      { receiveAttack(NewTetrisGameEngine(Width, Height, ShuffleOf(r)), n, HolesOf(h, n, Width)) :
          r \in RandomValues, h \in RandomValues, n \in {17, 18} }
  /\ last = Call("new", <<>>, Undefined)
  /\ calls = 0
  /\ gen = [bag |-> <<>>]
  /\ window = [t \in PieceTypes |-> 0]
  /\ inWindow = 0
  /\ previewed = <<>>
  /\ battle = NoBattle

NextRest == Update \/ MovePiece \/ RotatePiece

SpecRest == InitRest /\ [][NextRest]_vars

\* the same with hardDrop, which ends the game on these boards
NextOver == NextRest \/ HardDrop

SpecOver == InitRest /\ [][NextOver]_vars

(***************************** the stacking specification ******************)
\* A recorded game: the first bag deals O, T, J, L, I, the engine receives one
\* garbage row whose hole is in the last column, and the first four pieces are
\* turned, shifted one column at a time and hard-dropped so that L, dropped
\* into the last column, completes the garbage row and the row two above it
\* but not the row in between. Then a second garbage row arrives with its hole
\* under an open column, and the I piece is dropped into that hole. Entry k of
\* the plan is the hole of the garbage row received before piece k is moved
\* (-1: none) and the rotation and column the piece is dropped in. The
\* specification starts from the engine at each point of that game where a
\* piece has just spawned or is in place over its landing column, and plays
\* on from there.
StackGame ==
  [shuffle |-> <<1, 0, 1, 2, 2, 1>>,
   plan |-> << [hole |-> Width - 1, rotation |-> 0, x |-> -1],
               [hole |-> -1,        rotation |-> 2, x |-> 2],
               [hole |-> -1,        rotation |-> 2, x |-> 5],
               [hole |-> -1,        rotation |-> 3, x |-> 8],
               [hole |-> 4,         rotation |-> 1, x |-> 2] >>]

\* movePiece(-1, 0) or movePiece(1, 0) until the piece is at column x
RECURSIVE Shifted(_, _)
Shifted(e, x) ==
  IF e.currentPiece.x = x THEN e
  ELSE LET r == movePiece(e, IF x < e.currentPiece.x THEN -1 ELSE 1, 0)
       IN  IF r.ret THEN Shifted(r.e, x) ELSE r.e

RECURSIVE GameAfter(_, _)
\* the engine of recorded game g when piece k has spawned and the garbage row
\* of entry k, if any, has arrived
GameSpawned(g, k) ==
  IF g.plan[k].hole >= 0
  THEN receiveAttack(GameAfter(g, k - 1), 1, <<g.plan[k].hole>>)
  ELSE GameAfter(g, k - 1)

\* the k-th piece of the game in place over its landing column
GamePositioned(g, k) ==
  Shifted(rotateTo(GameSpawned(g, k), g.plan[k].rotation).e, g.plan[k].x)

\* the engine after the first k pieces of the game have been dropped
GameAfter(g, k) ==
  IF k = 0 THEN NewTetrisGameEngine(Width, Height, g.shuffle)
  ELSE hardDrop(GamePositioned(g, k), ShuffleOf([num |-> 0, den |-> 1])).e

\* the engines of the points of game g where a piece has spawned or is in place
GameEngines(g) ==
  { GamePositioned(g, k) : k \in 1..Len(g.plan) } \cup { GameSpawned(g, k) : k \in 1..Len(g.plan) }

InitStack ==
  /\ engine \in GameEngines(StackGame)
  /\ last = Call("new", <<>>, Undefined)
  /\ calls = 0
  /\ gen = [bag |-> <<>>]
  /\ window = [t \in PieceTypes |-> 0]
  /\ inWindow = 0
  /\ previewed = <<>>
  /\ battle = NoBattle

NextStack == MovePiece \/ RotatePiece \/ HardDrop

SpecStack == InitStack /\ [][NextStack]_vars

(***************************** the attack specification ********************)
\* A second recorded game: the first bag deals I, T, L, S, Z, J, O; before
\* each of the first six pieces one garbage row arrives whose hole is under an
\* open column, and the piece is dropped upright into that hole, so that six
\* locks in a row clear one row each. Besides the points of that game the
\* specification starts with an upright I over the well of four garbage rows,
\* whose drop empties the board. getAttackLines is called with any arguments
\* between the drops.
ComboGame ==
  [shuffle |-> <<0, 0, 3, 0, 2, 0>>,
   plan |-> << [hole |-> 0, rotation |-> 1, x |-> -2],
               [hole |-> 1, rotation |-> 1, x |-> 0],
               [hole |-> 3, rotation |-> 3, x |-> 2],
               [hole |-> 5, rotation |-> 1, x |-> 3],
               [hole |-> 8, rotation |-> 1, x |-> 7],
               [hole |-> 7, rotation |-> 1, x |-> 6] >>]

InitAttack ==
  /\ engine \in
      GameEngines(ComboGame) \cup
        { Shifted(rotateTo(receiveAttack(NewTetrisGameEngine(Width, Height, ComboGame.shuffle),
                                         4, [i \in 1..4 |-> 0]), 1).e, -2) }
  /\ last = Call("new", <<>>, Undefined)
  /\ calls = 0
  /\ gen = [bag |-> <<>>]
  /\ window = [t \in PieceTypes |-> 0]
  /\ inWindow = 0
  /\ previewed = <<>>
  /\ battle = NoBattle

\* getAttackLines(lines, isTSpin) with any arguments
GetAttackLines ==
  \E lines \in 0..4, isTSpinLock \in BOOLEAN :
    /\ engine' = engine
    /\ last' = Call("getAttackLines", <<lines, isTSpinLock>>,
                    getAttackLines(engine, lines, isTSpinLock))
    /\ UNCHANGED <<calls, gen, window, inWindow, previewed, battle>>

NextAttack == HardDrop \/ GetAttackLines

SpecAttack == InitAttack /\ [][NextAttack]_vars

(***************************** the spin specification **********************)
\* A T piece is turned and hard-dropped in every column of three boards: the
\* empty board of a new game, a board with four garbage rows whose holes are
\* in the first column, and a board on which the I piece dealt before the T
\* stands upright in the middle. The specification starts with the T turned
\* and shifted, one key at a time, to any rotation and column.
InitSpin ==
  /\ engine \in
      LET fresh  == NewTetrisGameEngine(Width, Height, <<1, 2, 3, 4, 5, 2>>)
          first  == NewTetrisGameEngine(Width, Height, <<1, 2, 3, 4, 2, 0>>)
          boards == { fresh,
                      receiveAttack(fresh, 4, [i \in 1..4 |-> 0]),
                      hardDrop(rotateTo(first, 1).e, ShuffleOf([num |-> 0, den |-> 1])).e }
      IN  { Shifted(rotateTo(e, rotation).e, x) :
              e \in boards, rotation \in 0..3, x \in -1..(Width - 2) }
  /\ last = Call("new", <<>>, Undefined)
  /\ calls = 0
  /\ gen = [bag |-> <<>>]
  /\ window = [t \in PieceTypes |-> 0]
  /\ inWindow = 0
  /\ previewed = <<>>
  /\ battle = NoBattle

NextSpin == RotatePiece \/ HardDrop

SpecSpin == InitSpin /\ [][NextSpin]_vars

(***************************** the battle specification *******************)
\* `this.currentRank = 99` and `rank: 99` of a player
InitialRank == 99

\* the id that stands for `null` where the code passes or stores a player id
NoPlayer == -1

\* the constructor makes one human and 98 AI players; the model makes
\* MaxPlayers players, the human (id 0) and MaxPlayers - 1 AI players
PlayerIds == 0..(MaxPlayers - 1)

\* one entry of this.players; controllerAlive is aiController.isAlive of an AI
\* player (the human has no controller). targetPlayer and attackQueue are left
\* out: the 'random' strategy reads neither
NewPlayer(id, js) ==
  [id |-> id,
   type |-> IF id = 0 THEN "human" ELSE "ai",
   gameEngine |-> NewTetrisGameEngine(Width, Height, js),
   controllerAlive |-> TRUE,
   isAlive |-> TRUE,
   rank |-> InitialRank,
   koCount |-> 0,
   badges |-> 0]

NewGameStats == [totalKOs |-> 0, totalAttacks |-> 0, winner |-> NoPlayer]

\* new BattleSystem(): the constructor and its initializePlayers(), which
\* makes count players
NewBattleSystem(count, js) ==
  [players |-> [i \in 1..count |-> NewPlayer(i - 1, js)],
   gameStarted |-> FALSE,
   gameEnded |-> FALSE,
   gameRunning |-> FALSE,
   currentRank |-> InitialRank,
   gameStats |-> NewGameStats]

\* this.players[id] is defined
HasPlayer(b, id) == (id + 1) \in DOMAIN b.players

\* this.players.filter(p => p.isAlive), as ids
AlivePlayers(b) == SelectSeq([i \in DOMAIN b.players |-> i - 1],
                             LAMBDA id : b.players[id + 1].isAlive)

\* startGame(settings): init(settings) empties this.players and then calls
\* gameEngine.init() on the first player it builds, which TetrisGameEngine
\* does not have; this.gameRunning is set when init returns
startGame(b, settings) ==
  LET b1 == [b EXCEPT !.players = <<>>]
  IN  IF settings.humanPlayers > 0 \/ settings.aiPlayers > 0
      THEN [b |-> b1, ret |-> "TypeError"]
      ELSE [b |-> [b1 EXCEPT !.gameRunning = TRUE], ret |-> Undefined]

\* eliminatePlayer without `this.currentRank--`
eliminatePlayerKeepsRank(b, playerId, killerId) ==
  IF ~HasPlayer(b, playerId) THEN b
  ELSE IF ~b.players[playerId + 1].isAlive THEN b
  ELSE LET player == [b.players[playerId + 1] EXCEPT !.isAlive = FALSE,
                                                     !.rank = b.currentRank]
           b1 == [b EXCEPT !.players[playerId + 1] = player]
       IN  IF killerId /= NoPlayer /\ HasPlayer(b1, killerId)
           THEN IF b1.players[killerId + 1].isAlive
                THEN [b1 EXCEPT !.players[killerId + 1].koCount = @ + 1,
                                !.players[killerId + 1].badges = @ + player.badges + 1,
                                !.gameStats.totalKOs = @ + 1]
                ELSE b1
           ELSE b1

eliminatePlayer(b, playerId, killerId) ==
  IF ~HasPlayer(b, playerId) THEN b
  ELSE IF ~b.players[playerId + 1].isAlive THEN b
  ELSE LET player == [b.players[playerId + 1] EXCEPT !.isAlive = FALSE,
                                                     !.rank = b.currentRank]
           b1 == [b EXCEPT !.players[playerId + 1] = player, !.currentRank = @ - 1]
       IN  IF killerId /= NoPlayer /\ HasPlayer(b1, killerId)
           THEN IF b1.players[killerId + 1].isAlive
                THEN [b1 EXCEPT !.players[killerId + 1].koCount = @ + 1,
                                !.players[killerId + 1].badges = @ + player.badges + 1,
                                !.gameStats.totalKOs = @ + 1]
                ELSE b1
           ELSE b1

\* deliverAttack(targetId, attackLines, attackerId); hole is the column
\* receiveAttack draws for the garbage rows
deliverAttack(b, targetId, attackLines, attackerId, hole) ==
  IF ~HasPlayer(b, targetId) THEN b
  ELSE IF ~b.players[targetId + 1].isAlive THEN b
  ELSE LET e  == receiveAttack(b.players[targetId + 1].gameEngine, attackLines,
                               [i \in 1..attackLines |-> hole])
           b1 == [b EXCEPT !.players[targetId + 1].gameEngine = e]
       IN  IF e.gameOver \/ IsNullPiece(e.currentPiece)
           THEN eliminatePlayer(b1, targetId, attackerId)
           ELSE b1

\* selectAttackTargets without its slice to four targets
selectAttackTargetsAll(b, attackerId, order) ==
  SelectSeq(order, LAMBDA id : /\ HasPlayer(b, id)
                               /\ b.players[id + 1].isAlive
                               /\ id /= attackerId)

\* selectAttackTargets under the 'random' strategy the constructor sets:
\* order is the outcome of getRandomTargets' shuffle, as a sequence of all ids
selectAttackTargets(b, attackerId, order) ==
  LET alivePlayers == SelectSeq(order, LAMBDA id : /\ HasPlayer(b, id)
                                                   /\ b.players[id + 1].isAlive
                                                   /\ id /= attackerId)
      count == IF Len(alivePlayers) < 4 THEN Len(alivePlayers) ELSE 4
  IN  SubSeq(alivePlayers, 1, count)

\* the forEach of sendAttack over targets[i..]
RECURSIVE deliverToTargets(_, _, _, _, _, _)
deliverToTargets(b, targets, i, attackLines, attackerId, hole) ==
  IF i > Len(targets) THEN b
  ELSE deliverToTargets(
         IF b.players[targets[i] + 1].isAlive
         THEN deliverAttack(b, targets[i], attackLines, attackerId, hole)
         ELSE b,
         targets, i + 1, attackLines, attackerId, hole)

\* BattleSystem.sendAttack(attackerId, attackLines)
battleSendAttack(b, attackerId, attackLines, order, hole) ==
  IF ~HasPlayer(b, attackerId) THEN b
  ELSE IF ~b.players[attackerId + 1].isAlive THEN b
  ELSE deliverToTargets(b, selectAttackTargets(b, attackerId, order), 1,
                        attackLines, attackerId, hole)

\* the forEach of BattleSystem.processAttacks over players[i..]
RECURSIVE battleProcessAttacks(_, _, _, _)
battleProcessAttacks(b, i, order, hole) ==
  IF i > Len(b.players) THEN b
  ELSE LET attacker == b.players[i]
       IN  IF ~attacker.isAlive \/ attacker.gameEngine.lines <= 0
           THEN battleProcessAttacks(b, i + 1, order, hole)
           ELSE LET res == processAttacks(attacker.gameEngine)
                    b1  == IF res.ret > 0
                           THEN [battleSendAttack(b, attacker.id, res.ret, order, hole)
                                   EXCEPT !.gameStats.totalAttacks = @ + 1]
                           ELSE b
                IN  battleProcessAttacks([b1 EXCEPT !.players[i].gameEngine.lines = 0],
                                         i + 1, order, hole)

\* makeMove() on the engine e; aiMove is what it does in this tick: nothing
\* when the move delay has not passed ("none"), one of makeRandomMove's
\* actions, or the searched move ("best")
makeMove(e, aiMove, js) ==
  IF IsNullPiece(e.currentPiece) \/ aiMove = "none" THEN e
  ELSE IF aiMove = "left" THEN movePiece(e, -1, 0).e
  ELSE IF aiMove = "right" THEN movePiece(e, 1, 0).e
  ELSE IF aiMove = "rotate" THEN rotatePiece(e, 1).e
  ELSE IF aiMove = "drop" THEN hardDrop(e, js).e
  ELSE LET found == findBestMove(e, getAIParams(Difficulty))
       IN  IF found.ret.isNull THEN found.e
           ELSE executeBestMove(found.e, found.ret, js).e

\* AIPlayer.update(deltaTime) on the player p; its attack queue is always
\* empty, BattleSystem delivers to the engine directly
aiUpdate(p, deltaTime, aiMove, js) ==
  IF ~p.controllerAlive \/ p.gameEngine.gameOver
  THEN [p EXCEPT !.controllerAlive = FALSE]
  ELSE [p EXCEPT !.gameEngine = makeMove(update(@, deltaTime, js), aiMove, js)]

\* the forEach of BattleSystem.update over players[i..]
RECURSIVE updatePlayers(_, _, _, _, _)
updatePlayers(b, i, deltaTime, aiMove, js) ==
  IF i > Len(b.players) THEN b
  ELSE LET player == b.players[i]
       IN  IF ~player.isAlive THEN updatePlayers(b, i + 1, deltaTime, aiMove, js)
           ELSE IF player.type = "ai"
           THEN LET p1 == aiUpdate(player, deltaTime, aiMove, js)
                    b1 == [b EXCEPT !.players[i] = p1]
                IN  updatePlayers(IF ~p1.controllerAlive
                                  THEN eliminatePlayer(b1, p1.id, NoPlayer)
                                  ELSE b1,
                                  i + 1, deltaTime, aiMove, js)
           ELSE LET e  == update(player.gameEngine, deltaTime, js)
                    b1 == [b EXCEPT !.players[i].gameEngine = e]
                IN  updatePlayers(IF e.gameOver
                                  THEN eliminatePlayer(b1, player.id, NoPlayer)
                                  ELSE b1,
                                  i + 1, deltaTime, aiMove, js)

endGame(b, winner) ==
  LET b1 == [b EXCEPT !.gameEnded = TRUE, !.gameStats.winner = winner]
  IN  IF winner /= NoPlayer THEN [b1 EXCEPT !.players[winner + 1].rank = 1] ELSE b1

checkGameEnd(b) ==
  LET alivePlayers == AlivePlayers(b)
  IN  IF Len(alivePlayers) <= 1
      THEN endGame(b, IF Len(alivePlayers) = 1 THEN alivePlayers[1] ELSE NoPlayer)
      ELSE b

\* updateRankings(): a sorts before p with more KOs, then with the higher
\* score; the sort is stable
updateRankings(b) ==
  LET ranksBefore(a, p) ==
        \/ a.koCount > p.koCount
        \/ a.koCount = p.koCount /\ a.gameEngine.score > p.gameEngine.score
        \/ /\ a.koCount = p.koCount /\ a.gameEngine.score = p.gameEngine.score
           /\ a.id < p.id
  IN  [b EXCEPT !.players =
         [i \in DOMAIN b.players |->
            IF b.players[i].isAlive
            THEN [b.players[i] EXCEPT !.rank =
                    1 + Cardinality({ j \in DOMAIN b.players :
                                        /\ b.players[j].isAlive
                                        /\ ranksBefore(b.players[j], b.players[i]) })]
            ELSE b.players[i]]]

\* BattleSystem.update(deltaTime); the window.* systems are absent
battleUpdate(b, deltaTime, aiMove, js, order, hole) ==
  IF ~b.gameStarted \/ b.gameEnded THEN b
  ELSE updateRankings(checkGameEnd(
         battleProcessAttacks(updatePlayers(b, 1, deltaTime, aiMove, js), 1, order, hole)))

\* BattleSystem.reset()
battleReset(b, js) ==
  [b EXCEPT !.gameStarted = FALSE,
            !.gameEnded = FALSE,
            !.currentRank = InitialRank,
            !.gameStats = NewGameStats,
            !.players = [i \in DOMAIN b.players |->
                           [b.players[i] EXCEPT !.isAlive = TRUE,
                                                !.rank = InitialRank,
                                                !.koCount = 0,
                                                !.badges = 0,
                                                !.controllerAlive = TRUE,
                                                !.gameEngine = reset(@, js)]]]

InitBattle ==
  /\ \E r \in RandomValues : battle = NewBattleSystem(MaxPlayers, ShuffleOf(r))
  /\ engine = NewTetrisGameEngine(Width, Height, ShuffleOf(PlayRandom))
  /\ last = Call("new", <<>>, Undefined)
  /\ calls = 0
  /\ gen = [bag |-> <<>>]
  /\ window = [t \in PieceTypes |-> 0]
  /\ inWindow = 0
  /\ previewed = <<>>

\* a call on the battle system
BattleCalled == UNCHANGED <<engine, calls, gen, window, inWindow, previewed>>

\* startGame(settings) with the game's settings (1 human, 98 AI) or with
\* settings that name fewer players
StartGame ==
  \E settings \in { [humanPlayers |-> h, aiPlayers |-> a] : h \in {0, 1}, a \in {0, 98} } :
    \E res \in {startGame(battle, settings)} :
      /\ battle' = res.b
      /\ last' = Call("startGame", <<settings>>, res.ret)
      /\ BattleCalled

\* update(deltaTime); the shuffle of getRandomTargets leaves the ids in rising
\* or in falling order
BattleUpdate ==
  \E deltaTime \in DeltaTimes,
     aiMove \in {"none", "left", "right", "rotate", "drop", "best"},
     order \in { [i \in 1..MaxPlayers |-> i - 1], [i \in 1..MaxPlayers |-> MaxPlayers - i] } :
    /\ battle' = battleUpdate(battle, deltaTime, aiMove, ShuffleOf(PlayRandom), order, 0)
    /\ last' = Call("update", <<deltaTime>>, Undefined)
    /\ BattleCalled

\* deliverAttack between the human player and an AI player, of the largest
\* attack getAttackLines returns (a T-spin triple at the combo cap with a
\* perfect clear), which fills the board
DeliverAttack ==
  \E targetId \in PlayerIds, attackLines \in {Height}, attackerId \in PlayerIds :
    /\ attackerId /= targetId
    /\ attackerId = 0 \/ targetId = 0
    /\ battle' = deliverAttack(battle, targetId, attackLines, attackerId, 0)
    /\ last' = Call("deliverAttack", <<targetId, attackLines, attackerId>>, Undefined)
    /\ BattleCalled

EliminatePlayer ==
  \E playerId \in PlayerIds :
    /\ battle' = eliminatePlayer(battle, playerId, NoPlayer)
    /\ last' = Call("eliminatePlayer", <<playerId>>, Undefined)
    /\ BattleCalled

BattleReset ==
  \E r \in RandomValues :
    /\ battle' = battleReset(battle, ShuffleOf(r))
    /\ last' = Call("reset", <<>>, Undefined)
    /\ BattleCalled

NextBattle ==
  \/ StartGame
  \/ BattleUpdate
  \/ DeliverAttack
  \/ EliminatePlayer
  \/ BattleReset

SpecBattle == InitBattle /\ [][NextBattle]_vars

(***************************** the evaluation specification ****************)
\* The boards and pieces of the spin specification; besides being turned and
\* hard-dropped, the current piece is evaluated where it would land, as an
\* iteration of findBestMove evaluates its test piece.
EvaluateLanding ==
  /\ ~IsNullPiece(engine.currentPiece)
  /\ ~engine.gameOver
  /\ last.op /= "evaluatePosition"
  /\ \E piece \in {TestPiece(engine, engine.currentPiece.rotation, engine.currentPiece.x)} :
       /\ ~isColliding(engine, piece)
       /\ \E res \in {evaluatePosition(engine, getAIParams(Difficulty), piece)} :
            /\ engine' = res.e
            /\ last' = Call("evaluatePosition", <<piece>>, res.ret)
  /\ UNCHANGED <<calls, gen, window, inWindow, previewed, battle>>

NextEval == RotatePiece \/ HardDrop \/ EvaluateLanding

SpecEval == InitSpin /\ [][NextEval]_vars

(***************************** the attack-delivery specification **********)
\* A battle of three more players than MaxPlayers, so that an attacker has
\* more than four rivals; players are eliminated and attacks are sent.
InitSend ==
  /\ battle = NewBattleSystem(MaxPlayers + 3, ShuffleOf(PlayRandom))
  /\ engine = NewTetrisGameEngine(Width, Height, ShuffleOf(PlayRandom))
  /\ last = Call("new", <<>>, Undefined)
  /\ calls = 0
  /\ gen = [bag |-> <<>>]
  /\ window = [t \in PieceTypes |-> 0]
  /\ inWindow = 0
  /\ previewed = <<>>

\* sendAttack(attackerId, attackLines) of a single or a tetris by the human
\* player or the first AI player; the shuffle of
\* getRandomTargets leaves the ids in rising or in falling order
BattleSendAttack ==
  \E attackerId \in {0, 1}, attackLines \in {1, 4}, hole \in {0},
     order \in { [i \in DOMAIN battle.players |-> i - 1],
                 [i \in DOMAIN battle.players |-> Len(battle.players) - i] } :
    /\ calls < MaxSends
    /\ calls' = calls + 1
    /\ battle' = battleSendAttack(battle, attackerId, attackLines, order, hole)
    /\ last' = Call("sendAttack", <<attackerId, attackLines>>, Undefined)
    /\ UNCHANGED <<engine, gen, window, inWindow, previewed>>

NextSend == EliminatePlayer \/ BattleSendAttack

SpecSend == InitSend /\ [][NextSend]_vars

(***************************** the tick specification *********************)
\* A battle whose human player has played on its engine: the first piece or
\* all pieces of the recorded combo game, so that the engine holds cleared
\* lines when update is called, or hard drops of every piece where it spawns
\* until the board is full.
InitTick ==
  /\ \E e \in { GameAfter(ComboGame, k) : k \in {1, Len(ComboGame.plan)} } \cup
              { LET RECURSIVE Dropped(_)
                    Dropped(d) == IF d.gameOver THEN d
                                  ELSE Dropped(hardDrop(d, ShuffleOf(PlayRandom)).e)
                IN  Dropped(NewTetrisGameEngine(Width, Height, ShuffleOf(PlayRandom))) } :
       battle = [NewBattleSystem(MaxPlayers, ShuffleOf(PlayRandom))
                   EXCEPT !.players[1].gameEngine = e]
  /\ engine = NewTetrisGameEngine(Width, Height, ShuffleOf(PlayRandom))
  /\ last = Call("new", <<>>, Undefined)
  /\ calls = 0
  /\ gen = [bag |-> <<>>]
  /\ window = [t \in PieceTypes |-> 0]
  /\ inWindow = 0
  /\ previewed = <<>>

NextTick == BattleUpdate \/ DeliverAttack \/ EliminatePlayer

SpecTick == InitTick /\ [][NextTick]_vars

(***************************** the lock-timer specification ***************)
\* A recorded game: the first bag deals I, T and Z; I is dropped upright into
\* the last column and T flat onto its top, so that the left arm of T hangs
\* over four empty rows. Z is shifted to end over that arm and soft-dropped.
\* The specification starts from the engine with Z at rest on the arm or one
\* row higher.
InitLock ==
  /\ engine \in
      LET RECURSIVE SoftDropped(_, _)
          SoftDropped(e, n) == IF n = 0 THEN e ELSE SoftDropped(softDrop(e).e, n - 1)
          game == [shuffle |-> <<1, 2, 3, 4, 2, 0>>,
                   plan |-> << [hole |-> -1, rotation |-> 1, x |-> Width - 3],
                               [hole |-> -1, rotation |-> 0, x |-> Width - 3],
                               [hole |-> -1, rotation |-> 0, x |-> Width - 5] >>]
      IN  { SoftDropped(GamePositioned(game, 3), n) : n \in {Height - 9, Height - 8} }
  /\ last = Call("new", <<>>, Undefined)
  /\ calls = 0
  /\ gen = [bag |-> <<>>]
  /\ window = [t \in PieceTypes |-> 0]
  /\ inWindow = 0
  /\ previewed = <<>>
  /\ battle = NoBattle

NextLock == Update \/ MovePiece \/ ReceiveAttack

SpecLock == InitLock /\ [][NextLock]_vars

(***************************** the start specification ********************)
\* initializePlayers() on a battle that startGame has started and left without
\* players, before any elimination; the method appends its players to the list
InitializePlayers ==
  /\ battle.gameRunning
  /\ Len(battle.players) = 0
  /\ battle.currentRank = InitialRank
  /\ \E r \in RandomValues :
       battle' = [battle EXCEPT !.players = NewBattleSystem(MaxPlayers, ShuffleOf(r)).players]
  /\ last' = Call("initializePlayers", <<>>, Undefined)
  /\ BattleCalled

NextStart == StartGame \/ InitializePlayers \/ BattleUpdate \/ EliminatePlayer

SpecStart == InitBattle /\ [][NextStart]_vars

(***************************** claims ***************************************)
\* the cells <<x, y>> a piece occupies, read off its 4x4 shape
OccupiedCells(p) ==
  { <<p.x + c, p.y + r>> : <<r, c>> \in
      { rc \in (0..3) \X (0..3) : PIECE_SHAPES[p.type][p.rotation + 1][rc[1] + 1][rc[2] + 1] = 1 } }

InsideBoard(e, cell) ==
  /\ cell[1] >= 0 /\ cell[1] < e.width
  /\ cell[2] >= 0 /\ cell[2] < e.height

\* some occupied cell is outside the board or on a non-empty board cell
CellsCollide(e, p) ==
  \E cell \in OccupiedCells(p) :
    \/ ~InsideBoard(e, cell)
    \/ e.board[cell[2] + 1][cell[1] + 1] /= Null

\* C1: isColliding(piece) is true iff some occupied cell of the piece is
\* outside [0,width) x [0,height) or coincides with a non-empty board cell.
C1_CollisionIff ==
  last.op = "isColliding" => (last.ret <=> CellsCollide(engine, last.args[1]))

\* C1's case: a piece wholly inside the board that collides with an occupied cell
C1_Witness ==
  /\ last.op = "isColliding"
  /\ last.ret
  /\ \A cell \in OccupiedCells(last.args[1]) : InsideBoard(engine, cell)

\* C2: rotatePiece(direction) either returns true with the piece in the new
\* rotation index at a non-colliding position, or returns false with the
\* piece's rotation, x and y as before the call.
C2_RotationAllOrNothing ==
  [][ last'.op = "rotatePiece" =>
        LET p == engine.currentPiece
            q == engine'.currentPiece
            n == NumRotations(p.type)
            newRotation == (p.rotation + last'.args[1] + n) % n
        IN  \/ /\ last'.ret = TRUE
               /\ q.type = p.type
               /\ q.rotation = newRotation
               /\ ~CellsCollide(engine', q)
            \/ /\ last'.ret = FALSE
               /\ q = p ]_vars

\* C2's case: a rotation refused on a live board because every kick collides
C2_Witness ==
  /\ last.op = "rotatePiece"
  /\ last.ret = FALSE
  /\ ~engine.gameOver

\* C3: movePiece(dx,dy) returns false and leaves x, y, the lock timer and
\* isLocking unchanged whenever the translated piece would collide; on success
\* it translates the piece by exactly (dx,dy), and it resets the lock timer and
\* clears isLocking only when dy = 0.
C3_MoveContract ==
  [][ last'.op = "movePiece" =>
        LET p  == engine.currentPiece
            q  == engine'.currentPiece
            dx == last'.args[1]
            dy == last'.args[2]
        IN  /\ CellsCollide(engine, move(p, dx, dy)) =>
                 /\ last'.ret = FALSE
                 /\ q = p
                 /\ engine'.lockTimer = engine.lockTimer
                 /\ engine'.isLocking = engine.isLocking
            /\ last'.ret = TRUE =>
                 /\ q = [p EXCEPT !.x = p.x + dx, !.y = p.y + dy]
                 /\ dy = 0 => (engine'.lockTimer = 0 /\ ~engine'.isLocking)
                 /\ dy /= 0 => /\ engine'.lockTimer = engine.lockTimer
                               /\ engine'.isLocking = engine.isLocking ]_vars

\* C3's case: a move refused by a collision while the lock timer is running
C3_Witness ==
  /\ last.op = "movePiece"
  /\ last.ret = FALSE
  /\ ~engine.gameOver
  /\ engine.isLocking
  /\ engine.lockTimer > 0

\* the number of rows 0..height-1 in which every cell is non-empty or covered
\* by piece p, i.e. the rows that are full once p is written into the board
CompletedRows(e, p) ==
  LET cells == OccupiedCells(p)
  IN  Cardinality({ y \in 0..(e.height - 1) :
        \A x \in 0..(e.width - 1) :
           e.board[y + 1][x + 1] /= Null \/ <<x, y>> \in cells })

\* the step locks a piece
StepLocks ==
  \/ last'.op = "lockPiece"
  \/ last'.op = "hardDrop" /\ ~engine.gameOver
  \/ last'.op = "update" /\ engine'.stats.totalPieces = engine.stats.totalPieces + 1

\* the piece the step locks, where it locks it
LockedPiece ==
  LET p == engine.currentPiece
      down == [p EXCEPT !.y = p.y + 1]
  IN  CASE last'.op = "hardDrop" -> [p EXCEPT !.y = p.y + last'.ret]
        [] last'.op = "update" ->
             IF /\ engine.dropTimer + last'.args[1] >= engine.dropInterval
                /\ ~CellsCollide(engine, down)
             THEN down ELSE p
        [] OTHER -> p

C5_BoardRectangular ==
  /\ Len(engine.board) = engine.height
  /\ \A y \in 1..Len(engine.board) : Len(engine.board[y]) = engine.width

\* C6: once gameOver is true, no further update, movePiece or lockPiece call
\* changes any cell of the board.
C6_GameOverFreezesBoard ==
  [][ (engine.gameOver /\ last'.op \in {"update", "movePiece", "lockPiece"})
        => engine'.board = engine.board ]_vars

\* C7: gameOver changes only from false to true, and once it is true no engine
\* operation other than reset() changes the engine state.
C7_GameOverFreezesEngine ==
  [][ (engine.gameOver /\ last'.op /= "reset") => engine' = engine ]_vars

\* C8: receiveAttack(0) leaves the board unchanged cell for cell, and does not
\* change gameOver or the current piece.
C8_EmptyAttackChangesNothing ==
  [][ (last'.op = "receiveAttack" /\ last'.args[1] = 0) =>
        /\ engine'.board = engine.board
        /\ engine'.gameOver = engine.gameOver
        /\ engine'.currentPiece = engine.currentPiece ]_vars

\* C8's case: receiveAttack(0) on a live board that holds garbage
C8_Witness ==
  /\ last.op = "receiveAttack"
  /\ last.args[1] = 0
  /\ ~engine.gameOver
  /\ \E y \in 1..Len(engine.board) : \E x \in 1..Len(engine.board[y]) :
       engine.board[y][x] /= Null

\* C9: for every n > 0, each of the n rows receiveAttack(n) appends at the
\* bottom of the board has exactly width-1 garbage-marked cells and exactly
\* one empty cell.
C9_GarbageRowShape ==
  [][ (last'.op = "receiveAttack" /\ last'.args[1] > 0) =>
        LET n == last'.args[1]
            b == engine'.board
        IN  /\ Len(b) >= n
            /\ \A i \in (Len(b) - n + 1)..Len(b) :
                 /\ Len(b[i]) = engine.width
                 /\ Cardinality({ x \in 1..Len(b[i]) : b[i][x] = Garbage }) = engine.width - 1
                 /\ Cardinality({ x \in 1..Len(b[i]) : b[i][x] = Null }) = 1 ]_vars

\* C9's case: an attack of 17 rows on a live board
C9_Witness ==
  /\ last.op = "receiveAttack"
  /\ last.args[1] = 17
  /\ ~engine.gameOver

\* C10: over the 7 draws that follow a refill of the bag each of the 7 piece
\* types appears exactly once, and getNext never returns a piece without a type.
C10_BagFairness ==
  /\ inWindow = Len(pieces) => \A t \in PieceTypes : window[t] = 1
  /\ \A t \in PieceTypes : window[t] <= 1
  /\ last.op = "getNext" => last.ret.type \in PieceTypes

\* C10's case: the 7 draws that follow a refill made by getNext are complete
C10_Witness ==
  /\ last.op = "getNext"
  /\ calls = 2 * Len(pieces)
  /\ inWindow = Len(pieces)

\* C11: in every window of 13 (= 2 x 7 - 1) consecutive draws from one piece
\* generator, at any offset relative to the bag boundaries, every one of the 7
\* piece types appears at least once.
C11_WindowHasEveryType ==
  inWindow = WindowLen => \A t \in PieceTypes : window[t] >= 1

\* C11's case: a complete window that opened one draw before a bag boundary,
\* so that it spans three bags, and in which some type appears only once
C11_Witness ==
  /\ inWindow = WindowLen
  /\ calls = WindowLen + Len(pieces) - 1
  /\ \E t \in PieceTypes : window[t] = 1

\* C12: for every generator state and every n >= 0, preview(n) does not change
\* the generator's bag, and the list it returns equals, element by element, the
\* types of the next n pieces returned by getNext when no other draw
\* intervenes (also when n exceeds the number of pieces left in the bag).
C12_PreviewAgreesWithDraws ==
  [][ /\ last'.op = "preview" =>
           /\ gen'.bag = gen.bag
           /\ Len(last'.ret) = last'.args[1]
      /\ (last'.op = "getNext" /\ Len(previewed) > 0) =>
           last'.ret.type = Head(previewed) ]_vars

\* the engine as executeBestMove(bestMove) on e hands it to hardDrop, dropped:
\* [e |-> the engine with the piece where it locks, ret |-> rows dropped]
DropOf(e, bestMove) == dropLoop(translated(rotateTo(e, bestMove.rotation), bestMove), 0)

\* the step is an executeBestMove that locks a piece
StepPlays ==
  /\ last'.op = "executeBestMove"
  /\ last'.ret = Undefined
  /\ ~engine.gameOver
  /\ ~IsNullPiece(engine.currentPiece)

\* the special-spin flag of a lock of p on e: a T piece with at least three of
\* the corners of its 3x3 box outside the 10x20 grid or occupied, the cells of
\* the piece itself counted as occupied
SpecialSpin(e, p) ==
  /\ p.type = "T"
  /\ Cardinality({ c \in { <<p.x, p.y>>, <<p.x + 2, p.y>>, <<p.x, p.y + 2>>,
                            <<p.x + 2, p.y + 2>> } :
        \/ c[1] < 0 \/ c[1] >= 10 \/ c[2] < 0 \/ c[2] >= 20
        \/ c \in OccupiedCells(p)
        \/ (c[2] < Len(e.board) /\ e.board[c[2] + 1][c[1] + 1] /= Null) }) >= 3

\* B of the scoring rule
BaseTable(k, spin) ==
  IF spin THEN CASE k = 0 -> 400 [] k = 1 -> 800 [] k = 2 -> 1200 [] k = 3 -> 1600
                 [] OTHER -> 0
  ELSE CASE k = 1 -> 100 [] k = 2 -> 300 [] k = 3 -> 500 [] k = 4 -> 800 [] OTHER -> 0

BoardEmpty(e) ==
  \A y \in 1..Len(e.board) : \A x \in 1..Len(e.board[y]) : e.board[y][x] = Null

\* C13: each lock adds to the score exactly level x M x (B + C): B the table
\* value for (rows cleared, special-spin flag), C = 50 x (combo - 1) when
\* combo > 1 and 0 otherwise, M = 10 when the board after the clear is empty and
\* 1 otherwise; level and combo are the engine's after the clear.  The lock is
\* that of an executeBestMove, whose hardDrop adds 2 per row dropped on top.
C13_LockScore ==
  [][ StepPlays =>
        LET d == DropOf(engine, last'.args[1])
            k == CompletedRows(d.e, d.e.currentPiece)
            B == BaseTable(k, SpecialSpin(d.e, d.e.currentPiece))
            C == IF engine'.combo > 1 THEN 50 * (engine'.combo - 1) ELSE 0
            M == IF BoardEmpty(engine') THEN 10 ELSE 1
        IN  engine'.score = engine.score + 2 * d.ret + engine'.level * M * (B + C)
    ]_<<engine, last.op, calls>>

\* C13's case: the first lock of a game cleared four rows without a special
\* spin at level 1 and combo 1, on a board that is not empty afterwards
C13_Witness ==
  /\ last.op = "executeBestMove"
  /\ calls = 1
  /\ engine.stats.tetrises = 1
  /\ ~engine.lastClearWasTSpin
  /\ engine.level = 1
  /\ engine.combo = 1
  /\ ~BoardEmpty(engine)
  /\ engine.score >= 800

\* the last executeBestMove locked a piece that cleared four rows without a
\* special spin, the only clear of the game so far, none of it consumed
TetrisCleared ==
  /\ last.op = "executeBestMove"
  /\ engine.combo >= 1
  /\ engine.stats.tetrises = 1
  /\ engine.stats.totalLines = 4
  /\ engine.lines = 4
  /\ ~engine.lastClearWasTSpin

\* the last executeBestMove locked a piece that cleared one row with a special
\* spin, the only clear of the game so far, not consumed
SpinSingleCleared ==
  /\ last.op = "executeBestMove"
  /\ engine.combo >= 1
  /\ engine.stats.totalLines = 1
  /\ engine.lines = 1
  /\ engine.lastClearWasTSpin

\* C14 as stated: after a lock that clears 4 lines without a special spin
\* getAttackLines(4, false) is 4, and after a lock that clears 1 line with a
\* special spin getAttackLines(1, true) is 2 (sendAttack returns
\* getAttackLines(lines, lastClearWasTSpin)).
C14_AttackLinesAsStated ==
  [][ last'.op = "sendAttack" =>
        /\ (TetrisCleared => last'.ret = 4)
        /\ (SpinSingleCleared => last'.ret = 2) ]_<<engine, last.op, calls>>

\* C14 amended: at combo 1 and with a cell left on the board after the clear,
\* getAttackLines(4, false) is 4 and getAttackLines(1, true) is 2.
C14_AttackLinesAmended ==
  [][ (last'.op = "sendAttack" /\ engine.combo = 1 /\ ~BoardEmpty(engine)) =>
        /\ (engine.lines = 4 /\ ~engine.lastClearWasTSpin => last'.ret = 4)
        /\ (engine.lines = 1 /\ engine.lastClearWasTSpin => last'.ret = 2)
    ]_<<engine, last.op, calls>>

\* C14's case: sendAttack after a special-spin single at combo 1 that left
\* cells on the board
C14_Witness ==
  /\ last.op = "sendAttack"
  /\ last.ret = 2
  /\ engine.combo = 1
  /\ engine.stats.totalLines = 1
  /\ engine.lines = 1
  /\ engine.lastClearWasTSpin
  /\ ~BoardEmpty(engine)

\* C15: in every state of a match (after locks, clears and the orchestrator's
\* consumption of the line counter) level = floor(total lines cleared / 10) + 1
\* and the drop interval is max(50, 1000 - (level - 1) x 50) ms.
C15_LevelFollowsTotalLines ==
  /\ engine.level = (engine.stats.totalLines \div 10) + 1
  /\ engine.dropInterval =
       (IF 1000 - (engine.level - 1) * 50 > 50 THEN 1000 - (engine.level - 1) * 50 ELSE 50)

\* the current piece of e, n rows further down
Lowered(e, n) == [e.currentPiece EXCEPT !.y = @ + n]

\* C16: hardDrop on a live engine moves the current piece straight down by the
\* largest distance d for which every intermediate position is collision-free,
\* locks it there in the same call (board, counters, statistics and the pieces
\* are as lockPiece leaves them), returns d, and the score is the score after
\* that lock plus 2 x d.
C16_HardDropContract ==
  [][ (last'.op = "hardDrop" /\ ~engine.gameOver /\ ~IsNullPiece(engine.currentPiece)) =>
        LET d == last'.ret
        IN  /\ d \in Nat
            /\ \A i \in 1..d : ~CellsCollide(engine, Lowered(engine, i))
            /\ CellsCollide(engine, Lowered(engine, d + 1))
            /\ \E js \in ShuffleInputs(engine) :
                 LET locked == lockPiece([engine EXCEPT !.currentPiece = Lowered(engine, d)], js)
                 IN  /\ engine'.score = locked.score + 2 * d
                     /\ engine'.board = locked.board
                     /\ engine'.lines = locked.lines
                     /\ engine'.combo = locked.combo
                     /\ engine'.level = locked.level
                     /\ engine'.stats = locked.stats
                     /\ engine'.currentPiece = locked.currentPiece
                     /\ engine'.nextPiece = locked.nextPiece
                     /\ engine'.gameOver = locked.gameOver ]_vars

\* C16's case: a hard drop over at least one row whose lock cleared rows and
\* scored for them
C16_Witness ==
  /\ last.op = "hardDrop"
  /\ last.ret > 0
  /\ engine.combo = 1
  /\ engine.stats.totalLines > 0
  /\ engine.score >= 100 + 2 * last.ret

\* C17: holdPiece is usable once per piece spawn: a holdPiece() on a live
\* engine that may hold returns true and closes the gate canHold; a
\* holdPiece() while the gate is closed returns false and changes nothing; a
\* lock that spawns the next piece opens the gate again.
C17_HoldOncePerSpawn ==
  [][ /\ (last'.op = "holdPiece" /\ engine.canHold
            /\ ~IsNullPiece(engine.currentPiece) /\ ~engine.gameOver) =>
          (last'.ret /= "TypeError" /\ last'.ret = TRUE /\ ~engine'.canHold)
      /\ (last'.op = "holdPiece" /\ ~engine.canHold) =>
          (last'.ret /= "TypeError" /\ last'.ret = FALSE /\ engine' = engine)
      /\ (StepLocks /\ ~IsNullPiece(engine.currentPiece)) => engine'.canHold
    ]_<<engine, last.op, calls>>

\* the current piece of e in the given rotation at column x, as far down from
\* row 0 as it goes before one more step would collide (row -1 when it
\* collides in row 0 already)
Landing(e, rotation, x) ==
  LET p == [e.currentPiece EXCEPT !.rotation = rotation, !.x = x, !.y = 0]
  IN  [p EXCEPT !.y = Minimum({ y \in 0..e.height :
                                  CellsCollide(e, [p EXCEPT !.y = y]) }) - 1]

\* the valid candidates of a search on e, each with its evaluation score
Candidates(e) ==
  { [isNull |-> FALSE, x |-> x, y |-> Landing(e, rotation, x).y, rotation |-> rotation,
     score |-> evaluatePosition(e, getAIParams(Difficulty), Landing(e, rotation, x)).ret] :
      <<rotation, x>> \in
        { rx \in (0..(NumRotations(e.currentPiece.type) - 1)) \X (-2..(e.width + 1)) :
            ~CellsCollide(e, Landing(e, rx[1], rx[2])) } }

\* c comes before d in the iteration order: rotation outer, x inner, ascending
Before(c, d) == c.rotation < d.rotation \/ (c.rotation = d.rotation /\ c.x < d.x)

\* found is what a search over the candidates S must return
FirstMaximum(found, S) ==
  IF S = {} THEN found.isNull
  ELSE /\ found \in S
       /\ \A c \in S : c.score <= found.score
       /\ \A c \in S : c.score = found.score /\ c /= found => Before(found, c)

\* C18: findBestMove returns a placement whose evaluation score is the maximum
\* over all valid candidates (every rotation of the current piece, every x in
\* [-2, width + 2), dropped until one more step would collide), and among the
\* candidates of maximal score the first in iteration order.
C18_FirstMaximum ==
  [][ (last'.op = "findBestMove" /\ ~IsNullPiece(engine.currentPiece)) =>
        FirstMaximum(last'.ret, Candidates(engine)) ]_<<engine, last.op, calls>>

\* C18's case: a search in which two candidates share the maximal score
C18_Witness ==
  /\ last.op = "findBestMove"
  /\ ~last.ret.isNull
  /\ \E c \in Candidates(engine) : c.score = last.ret.score /\ Before(last.ret, c)

\* C19: findBestMove and evaluatePosition never mutate the live engine: the
\* board cells, the current piece's x, y and rotation, and score, lines, combo
\* and gameOver are the same after every search call as before it.
C19_SearchLeavesEngine ==
  [][ last'.op \in {"findBestMove", "evaluatePosition"} =>
        /\ engine'.board = engine.board
        /\ engine'.currentPiece.x = engine.currentPiece.x
        /\ engine'.currentPiece.y = engine.currentPiece.y
        /\ engine'.currentPiece.rotation = engine.currentPiece.rotation
        /\ engine'.score = engine.score
        /\ engine'.lines = engine.lines
        /\ engine'.combo = engine.combo
        /\ engine'.gameOver = engine.gameOver ]_<<engine, last.op, calls>>

\* C19's case: an evaluatePosition, after a search found a move, of a piece
\* lying on the cells of a board the player has already locked pieces on
C19_Witness ==
  /\ last.op = "evaluatePosition"
  /\ calls >= 1
  /\ last.args[1].y > 0
  /\ ~BoardEmpty(engine)

\* the board of e is n full rows at the bottom but for column c, empty above
WellBoard(e, n, c) ==
  /\ Len(e.board) = e.height
  /\ \A y \in 1..e.height : \A x \in 1..e.width :
       (e.board[y][x] = Null) <=> (y <= e.height - n \/ x = c + 1)

\* a 10x20 board whose only gap is a well at least as deep as an I piece is
\* long, and an I piece to place
DeepWell(e, n, c) ==
  /\ e.width = 10 /\ e.height = 20
  /\ n >= 4
  /\ WellBoard(e, n, c)
  /\ e.currentPiece.type = "I"

\* C20: on a 10x20 board whose only gap is a single deep well of width 1 and
\* with an I piece as current piece, findBestMove with the default (medium)
\* weights returns the vertical placement that fills the bottom four cells
\* of the well.
C20_IPieceIntoWell ==
  \A n \in 4..20, c \in 0..9 :
    (last.op = "findBestMove" /\ DeepWell(engine, n, c)) =>
      /\ ~last.ret.isNull
      /\ last.ret.rotation \in {1, 3}
      /\ OccupiedCells([type |-> "I", x |-> last.ret.x, y |-> last.ret.y,
                         rotation |-> last.ret.rotation])
           = { <<c, y>> : y \in 16..19 }

\* C20's case: a search on a board with a well of ten rows or more at the left
\* wall, where the vertical piece hangs over the wall
C20_Witness ==
  /\ last.op = "findBestMove"
  /\ \E n \in 10..20 : DeepWell(engine, n, 0)
  /\ last.ret.x < 0

\* the offsets a rotation of a piece of the given type from rotation `from` to
\* rotation `to` tries, in order
KickOrder(type, from, to) ==
  IF type = "O" THEN << <<0, 0>> >>
  ELSE << <<0, 0>> >> \o WALL_KICK_DATA[IF type = "I" THEN "I" ELSE "JLSTZ"][<<from, to>>]

\* piece p in rotation `to`, shifted by the offset k
Kicked(p, to, k) == [p EXCEPT !.rotation = to, !.x = @ + k[1], !.y = @ + k[2]]

PlacedBoard(e, cells, type) ==
  [y \in 1..e.height |->
     [x \in 1..e.width |-> IF <<x - 1, y - 1>> \in cells THEN type ELSE e.board[y][x]]]

\* the indices of the rows of board b in which every cell is non-empty
FullRowSet(b) == { y \in 1..Len(b) : \A x \in 1..Len(b[y]) : b[y][x] /= Null }

\* board b without its rows `full`, the other rows in their order, under one
\* empty row per row removed
WithoutRows(b, full, width) ==
  LET kept == SelectSeq([y \in 1..Len(b) |-> y], LAMBDA y : y \notin full)
  IN  [i \in 1..Cardinality(full) |-> [x \in 1..width |-> Null]]
        \o [i \in 1..Len(kept) |-> b[kept[i]]]

\* C23: the clearLines of a lock removes exactly the rows in which every cell
\* is non-empty, adjacent or not, keeps the other rows unchanged in their
\* top-to-bottom order, inserts one empty row at the top per removed row, and
\* returns the number of rows removed (which the line counter grows by).
C23_ClearLinesRows ==
  [][ (StepLocks /\ ~engine.gameOver /\ ~IsNullPiece(engine.currentPiece)) =>
        \E cells \in {OccupiedCells(LockedPiece)} :
          \E b \in {PlacedBoard(engine, cells, engine.currentPiece.type)} :
            \E full \in {FullRowSet(b)} :
              /\ engine'.board = WithoutRows(b, full, engine.width)
              /\ engine'.lines = engine.lines + Cardinality(full)
              /\ clearLines([engine EXCEPT !.board = b]).ret = Cardinality(full)
    ]_<<engine, last.op, calls>>

\* C23's case: the L piece of the recorded game has completed the garbage row
\* and the row two above it; the row between them is now the bottom row and
\* the rest of the board is empty
C23_Witness ==
  /\ last.op = "hardDrop"
  /\ engine.stats.doubles = 1
  /\ engine.stats.totalLines = 2
  /\ engine.board[engine.height] = <<"O", "O", Null, "T", Null, Null, Null, "J", Null, "L">>
  /\ \A y \in 1..(engine.height - 1) : \A x \in 1..engine.width : engine.board[y][x] = Null

\* C24: the combo counter is the number of consecutive most recent locks that
\* each cleared a row: a lock that clears rows adds exactly 1 to it, a lock
\* that clears none sets it to 0, and no move or rotation changes it.
C24_ComboCountsClearingLocks ==
  [][ IF StepLocks /\ ~engine.gameOver /\ ~IsNullPiece(engine.currentPiece)
      THEN \E cells \in {OccupiedCells(LockedPiece)} :
             \E b \in {PlacedBoard(engine, cells, engine.currentPiece.type)} :
               engine'.combo = IF FullRowSet(b) /= {} THEN engine.combo + 1 ELSE 0
      ELSE engine'.combo = engine.combo ]_<<engine, last.op, calls>>

\* C24's case: a lock that cleared nothing has just ended a combo of two
\* clearing locks (the double of L and the single of I of the recorded game)
C24_Witness ==
  /\ last.op = "hardDrop"
  /\ engine.combo = 0
  /\ engine.stats.doubles = 1
  /\ engine.stats.singles = 1
  /\ engine.stats.totalPieces = 7

\* the step is a movePiece(dx, 0) or a rotatePiece that returned true
StepShiftsOrTurns ==
  /\ last'.op \in {"movePiece", "rotatePiece"}
  /\ last'.ret = TRUE
  /\ last'.op = "movePiece" => last'.args[2] = 0

\* C25: update() locks the piece only when a gravity step was blocked, in this
\* update or in an earlier one (isLocking), and the lock timer, which counts
\* the update time since then, reaches lockDelay; the timer is 0 whenever
\* isLocking is false, every successful lateral move or rotation sets it to 0
\* and clears isLocking, and no other move changes either; so an update with
\* deltaTime < lockDelay that first finds the piece blocked does not lock it.
C25_LockDelay ==
  [][ /\ (~engine.isLocking => engine.lockTimer = 0)
      /\ (last'.op = "update" /\ ~engine.gameOver /\ ~IsNullPiece(engine.currentPiece)) =>
            LET deltaTime == last'.args[1]
                blocked   == /\ engine.dropTimer + deltaTime >= engine.dropInterval
                             /\ CellsCollide(engine, Lowered(engine, 1))
                locking   == engine.isLocking \/ blocked
                timer     == engine.lockTimer + deltaTime
                locked    == engine'.stats.totalPieces = engine.stats.totalPieces + 1
            IN  /\ locked <=> (locking /\ timer >= engine.lockDelay)
                /\ ~locked => /\ engine'.isLocking = locking
                              /\ engine'.lockTimer = (IF locking THEN timer ELSE 0)
                              /\ engine'.stats.totalPieces = engine.stats.totalPieces
                /\ (~engine.isLocking /\ deltaTime < engine.lockDelay) => ~locked
      /\ (last'.op \in {"movePiece", "rotatePiece"} /\ ~engine.gameOver) =>
            IF StepShiftsOrTurns
            THEN engine'.lockTimer = 0 /\ ~engine'.isLocking
            ELSE /\ engine'.lockTimer = engine.lockTimer
                 /\ engine'.isLocking = engine.isLocking
    ]_<<engine, last.op, calls>>

\* C25's case: update(400) has locked the first piece, which the update before
\* it had found blocked where it spawned
C25_Witness ==
  /\ last.op = "update"
  /\ last.args[1] = 400
  /\ calls = 3
  /\ engine.stats.totalPieces = 2

\* the corners (x, y), (x+2, y), (x, y+2), (x+2, y+2) of piece p that are
\* outside the 10x20 grid or non-empty on board b
OccupiedCorners(p, b) ==
  { c \in { <<p.x, p.y>>, <<p.x + 2, p.y>>, <<p.x, p.y + 2>>, <<p.x + 2, p.y + 2>> } :
      \/ c[1] < 0 \/ c[1] >= 10 \/ c[2] < 0 \/ c[2] >= 20
      \/ b[c[2] + 1][c[1] + 1] /= Null }

\* C26: a lock is flagged as a special spin (lastClearWasTSpin true, the
\* special-spin counter incremented) if and only if the locked piece is a T
\* and at least three of the four corners (x, y), (x+2, y), (x, y+2),
\* (x+2, y+2) of its origin are out of bounds or occupied on the board as
\* lockPiece tests it, that is with the locked piece written in; a lock of
\* any other piece type is never flagged.
C26_SpinFlag ==
  [][ (StepLocks /\ ~engine.gameOver /\ ~IsNullPiece(engine.currentPiece)) =>
        \E p \in {LockedPiece} :
          \E b \in {PlacedBoard(engine, OccupiedCells(p), p.type)} :
            \E spin \in {p.type = "T" /\ Cardinality(OccupiedCorners(p, b)) >= 3} :
              /\ engine'.lastClearWasTSpin = spin
              /\ engine'.stats.tSpins = engine.stats.tSpins + (IF spin THEN 1 ELSE 0)
              /\ p.type /= "T" => ~engine'.lastClearWasTSpin
    ]_<<engine, last.op, calls>>

\* C26's case: a lock on a live engine has been flagged for a T that touches
\* neither side wall, so that its occupied corners are board cells
C26_Witness ==
  /\ last.op = "hardDrop"
  /\ ~engine.gameOver
  /\ engine.lastClearWasTSpin
  /\ engine.stats.tSpins = 1
  /\ \A y \in 1..engine.height :
       engine.board[y][1] /= "T" /\ engine.board[y][engine.width] /= "T"

\* C27: every executeBestMove of a move returned by findBestMove returns, and
\* has by then hard-dropped and locked the piece.
C27_ExecuteBestMoveTerminates ==
  [][ last'.op = "executeBestMove" =>
        /\ last'.ret = Undefined
        /\ engine'.stats.totalPieces = engine.stats.totalPieces + 1
    ]_<<engine, last.op, calls>>

\* C28: when the piece spawned after a lock collides with the board, gameOver
\* is set (and only then), and from then on update, movePiece, rotatePiece
\* and hardDrop spawn no piece and draw none from the generator: they leave
\* the engine as it is and return false, false and 0.
C28_GameOverIsFinal ==
  [][ /\ (StepLocks /\ ~engine.gameOver /\ ~IsNullPiece(engine.currentPiece)) =>
            (engine'.gameOver <=> CellsCollide(engine', engine'.currentPiece))
      /\ (engine.gameOver /\ last'.op \in {"update", "movePiece", "rotatePiece", "hardDrop"}) =>
            /\ engine' = engine
            /\ last'.op \in {"movePiece", "rotatePiece"} => last'.ret = FALSE
            /\ last'.op = "hardDrop" => last'.ret = 0
    ]_<<engine, last.op, calls>>

\* C28's case: movePiece has been called on an engine whose second piece
\* collided with the board when it spawned
C28_Witness ==
  /\ last.op = "movePiece"
  /\ engine.gameOver
  /\ engine.stats.totalPieces = 2
  /\ CellsCollide(engine, engine.currentPiece)

\* T of the attack rule: 0/1/2/4 for 1/2/3/4 lines without a special spin,
\* 0/2/4/6 for 0/1/2/3 lines with one
AttackTable(n, spin) ==
  IF spin THEN CASE n = 0 -> 0 [] n = 1 -> 2 [] n = 2 -> 4 [] n = 3 -> 6
  ELSE CASE n = 1 -> 0 [] n = 2 -> 1 [] n = 3 -> 2 [] n = 4 -> 4

\* C29: getAttackLines(n, spin) returns T(n, spin), plus min(combo - 1, 4)
\* when combo > 1, plus 10 when the board is entirely empty, and changes no
\* engine state.
C29_AttackLines ==
  [][ (/\ last'.op = "getAttackLines"
       /\ IF last'.args[2] THEN last'.args[1] \in 0..3 ELSE last'.args[1] \in 1..4) =>
        /\ last'.ret = AttackTable(last'.args[1], last'.args[2])
                         + (IF engine.combo > 1
                            THEN (IF engine.combo - 1 < 4 THEN engine.combo - 1 ELSE 4)
                            ELSE 0)
                         + (IF BoardEmpty(engine) THEN 10 ELSE 0)
        /\ engine' = engine
    ]_<<engine, last.op, last.args, calls>>

\* C29's case: getAttackLines(1, true) after six clearing locks in a row,
\* where the combo bonus is capped at 4
C29_Witness ==
  /\ last.op = "getAttackLines"
  /\ last.args = <<1, TRUE>>
  /\ last.ret = 6
  /\ engine.combo = 6
  /\ ~BoardEmpty(engine)

\* C30: holdPiece() on a live engine that may hold, with a held piece present,
\* exchanges the types of the current and the held piece and puts the
\* swapped-in piece at x = 3, y = 0 in rotation 0 without drawing from the
\* generator or changing nextPiece; with no held piece it stores the current
\* piece's type as held and the former next piece becomes the current piece.
C30_HoldExchangesPieces ==
  [][ (/\ last'.op = "holdPiece"
       /\ engine.canHold /\ ~IsNullPiece(engine.currentPiece) /\ ~engine.gameOver) =>
        /\ engine'.holdPiece.type = engine.currentPiece.type
        /\ IF ~IsNullPiece(engine.holdPiece)
           THEN /\ engine'.currentPiece =
                     [type |-> engine.holdPiece.type, x |-> 3, y |-> 0, rotation |-> 0]
                /\ engine'.nextPiece = engine.nextPiece
                /\ engine'.pieceGenerator = engine.pieceGenerator
           ELSE /\ engine'.currentPiece = engine.nextPiece
    ]_<<engine, last.op, calls>>

\* what a player record shows of its engine, rank and alive flag
PlayerStates(b) ==
  [i \in DOMAIN b.players |->
     [gameEngine |-> b.players[i].gameEngine,
      rank |-> b.players[i].rank,
      isAlive |-> b.players[i].isAlive]]

\* C21: once at most one competitor is alive, BattleSystem.update leaves the
\* match marked ended, the winner being the sole survivor, with rank 1, or
\* none; and an update call on an ended match changes no player's engine,
\* rank or alive flag.
C21_MatchEndsWithOneAlive ==
  [][ last'.op = "update" =>
        /\ Len(AlivePlayers(battle')) <= 1 =>
             /\ battle'.gameEnded
             /\ IF Len(AlivePlayers(battle')) = 1
                THEN /\ battle'.gameStats.winner = AlivePlayers(battle')[1]
                     /\ battle'.players[AlivePlayers(battle')[1] + 1].rank = 1
                ELSE battle'.gameStats.winner = NoPlayer
        /\ battle.gameEnded => PlayerStates(battle') = PlayerStates(battle)
    ]_<<battle, last.op>>

\* the largest element of a non-empty set of numbers
Maximum(S) == CHOOSE m \in S : \A n \in S : m >= n

\* the height of column x of board b: the rows from its topmost non-empty
\* cell down to the floor
HeightOfColumn(b, x) ==
  IF \A y \in 1..Len(b) : b[y][x] = Null THEN 0
  ELSE Len(b) + 1 - Minimum({ y \in 1..Len(b) : b[y][x] /= Null })

\* the empty cells of board b that lie below a non-empty cell of their column
HolesIn(b, width) ==
  { c \in (1..width) \X (1..Len(b)) :
      /\ b[c[2]][c[1]] = Null
      /\ \E y \in 1..(c[2] - 1) : b[y][c[1]] /= Null }

\* the sum of the height differences of neighbouring columns x, x + 1 from x on
RECURSIVE StepsFrom(_, _)
StepsFrom(heights, x) ==
  IF x >= Len(heights) THEN 0
  ELSE (IF heights[x] >= heights[x + 1] THEN heights[x] - heights[x + 1]
        ELSE heights[x + 1] - heights[x]) + StepsFrom(heights, x + 1)

\* the sum of heights[x..]
RECURSIVE TotalFrom(_, _)
TotalFrom(heights, x) ==
  IF x > Len(heights) THEN 0 ELSE heights[x] + TotalFrom(heights, x + 1)

\* the score of the composite formula, in tenths, from the number c of full
\* rows, the column heights and holes of the board after the clear, and the
\* two bonuses
StatedScore(aiParams, c, heights, holes, spin, empty) ==
  aiParams.linesWeight * c * c
  + aiParams.heightWeight * Maximum({ heights[x] : x \in 1..Len(heights) })
  + aiParams.holesWeight * holes
  + aiParams.bumpinessWeight * StepsFrom(heights, 1)
  + aiParams.aggregateHeightWeight * TotalFrom(heights, 1)
  + (IF spin THEN 100 * 10 ELSE 0)
  + (IF empty THEN 1000 * 10 ELSE 0)

\* C31: evaluatePosition(piece) equals linesWeight x c^2 + heightWeight x
\* maxHeight + holesWeight x holes + bumpinessWeight x bumpiness +
\* aggregateHeightWeight x aggregateHeight, +100 for a T with three occupied
\* corners on the live board and +1000 when the board after the clear is
\* empty; c is the number of full rows after placing the piece on a copy of
\* the board, the metrics are those of the copy without its full rows, and
\* maxHeight is the largest column height.
C31_EvaluationFormula ==
  last.op = "evaluatePosition" =>
    \E piece \in {last.args[1]} :
    \E placed \in {PlacedBoard(engine, OccupiedCells(piece), piece.type)} :
    \E full \in {FullRowSet(placed)} :
    \E after \in {WithoutRows(placed, full, engine.width)} :
    \E heights \in {[x \in 1..engine.width |-> HeightOfColumn(after, x)]} :
      last.ret = StatedScore(getAIParams(Difficulty), Cardinality(full), heights,
                             Cardinality(HolesIn(after, engine.width)),
                             /\ piece.type = "T"
                             /\ Cardinality(OccupiedCorners(piece, engine.board)) >= 3,
                             \A y \in 1..Len(after) : \A x \in 1..engine.width :
                               after[y][x] = Null)

\* C31's case: the evaluated placement completes a row and leaves holes and
\* uneven columns on the board after the clear
C31_Witness ==
  /\ last.op = "evaluatePosition"
  /\ \E placed \in {PlacedBoard(engine, OccupiedCells(last.args[1]), last.args[1].type)} :
       /\ FullRowSet(placed) /= {}
       /\ HolesIn(WithoutRows(placed, FullRowSet(placed), engine.width), engine.width) /= {}
       /\ HeightOfColumn(placed, 1) /= HeightOfColumn(placed, 2)

\* the ids of the players whose engine the step has changed
EnginesChanged ==
  { id \in 0..(Len(battle.players) - 1) :
      battle'.players[id + 1].gameEngine /= battle.players[id + 1].gameEngine }

\* engine e1 is engine e after n garbage rows have come in at once: the top n
\* rows are gone, the others have moved up, the bottom n rows are garbage with
\* one hole each, and nothing else but gameOver differs
GarbageCameIn(e, e1, n) ==
  /\ \A y \in 1..(e.height - n) : e1.board[y] = e.board[y + n]
  /\ \A y \in (e.height - n + 1)..e.height :
       /\ Cardinality({ x \in 1..e.width : e1.board[y][x] = Null }) = 1
       /\ \A x \in 1..e.width : e1.board[y][x] \in {Null, Garbage}
  /\ [e1 EXCEPT !.board = e.board, !.gameOver = e.gameOver] = e

C33_LinesConsumedEachTick ==
  [][ last'.op = "update" =>
        \A i \in DOMAIN battle'.players :
          battle'.players[i].isAlive => battle'.players[i].gameEngine.lines = 0
    ]_<<battle, last.op>>

\* C34: in every reachable engine state with gameOver false the current piece
\* is not null, each of its cells is inside the board, and none of its cells
\* is an occupied cell of the board.
C34_PieceValidWhilePlaying ==
  ~engine.gameOver =>
     /\ ~IsNullPiece(engine.currentPiece)
     /\ \A cell \in OccupiedCells(engine.currentPiece) :
          /\ InsideBoard(engine, cell)
          /\ engine.board[cell[2] + 1][cell[1] + 1] = Null

\* C34's case: an attack has come in under a piece that had moved down, the
\* game goes on, and the piece now rests on the garbage
C34_Witness ==
  /\ last.op = "receiveAttack"
  /\ last.args[1] > 0
  /\ ~engine.gameOver
  /\ engine.currentPiece.y > 0
  /\ CellsCollide(engine, Lowered(engine, 1))

\* C35: whenever update() locks the piece through the lock-delay timer, the
\* piece is at rest at that moment: one row lower it would collide. The piece
\* that update locks is the current piece, one row lower when the drop timer
\* of the same update has moved it.
C35_TimerLocksRestingPiece ==
  [][ ( /\ last'.op = "update"
        /\ ~engine.gameOver
        /\ ~IsNullPiece(engine.currentPiece)
        /\ engine'.stats.totalPieces = engine.stats.totalPieces + 1 ) =>
          LET fell == /\ engine.dropTimer + last'.args[1] >= engine.dropInterval
                      /\ ~CellsCollide(engine, Lowered(engine, 1))
          IN  CellsCollide(engine, Lowered(engine, IF fell THEN 2 ELSE 1))
    ]_<<engine, last.op, calls>>

\* the score of claim C31 for the evaluated piece without the spin bonus
ScoreWithoutSpin(e, piece) ==
  LET placed  == PlacedBoard(e, OccupiedCells(piece), piece.type)
      full    == FullRowSet(placed)
      after   == WithoutRows(placed, full, e.width)
      heights == [x \in 1..e.width |-> HeightOfColumn(after, x)]
  IN  StatedScore(getAIParams(Difficulty), Cardinality(full), heights,
                  Cardinality(HolesIn(after, e.width)), FALSE,
                  \A y \in 1..Len(after) : \A x \in 1..e.width : after[y][x] = Null)

\* C37: when a T piece is evaluated at its landing place and then locked
\* there by a hard drop, the evaluation has added the spin bonus of 100
\* exactly when the lock is flagged as a special spin.
C37_SpinBonusMatchesLock ==
  [][ ( /\ last.op = "evaluatePosition"
        /\ last'.op = "hardDrop"
        /\ ~engine.gameOver
        /\ engine.currentPiece.type = "T"
        /\ last.args[1] = Lowered(engine, last'.ret) ) =>
          \E plain \in {ScoreWithoutSpin(engine, last.args[1])} :
            (last.ret = plain + 100 * 10) <=> engine'.lastClearWasTSpin
    ]_<<engine, last.op, calls>>

\* C36: when executeBestMove(move) runs on the state findBestMove has
\* searched and returns, the cells it has committed are the cells of the
\* searched placement (move.rotation, move.x, move.y): the board afterwards is
\* the board before with those four cells written in and the full rows
\* removed.
C36_MoveLandsWhereSearched ==
  [][ (last'.op = "executeBestMove" /\ last'.ret = Undefined) =>
        \E p \in {[type |-> engine.currentPiece.type, x |-> last'.args[1].x,
                   y |-> last'.args[1].y, rotation |-> last'.args[1].rotation]} :
          \E b \in {PlacedBoard(engine, OccupiedCells(p), p.type)} :
            engine'.board = WithoutRows(b, FullRowSet(b), engine.width)
    ]_<<engine, last.op, calls>>

\* C38: when a tick of update ends, every player whose engine has gameOver
\* true is marked not alive.
C38_GameOverPlayersEliminated ==
  [][ last'.op = "update" =>
        \A i \in DOMAIN battle'.players :
          battle'.players[i].gameEngine.gameOver => ~battle'.players[i].isAlive
    ]_<<battle, last.op>>

\* C39: a player that a step eliminates gets the rank 99 minus the number of
\* players eliminated before it, which among the 99 players of a battle is
\* the number of players alive just before; no two eliminated players have
\* the same rank; and a player that is eliminated stays not alive with the
\* same rank through every step that does not set the players up anew
\* (reset, or startGame, which begins with init).
C39_EliminationRanks ==
  [][ /\ \A i \in DOMAIN battle.players \cap DOMAIN battle'.players :
           /\ (battle.players[i].isAlive /\ ~battle'.players[i].isAlive) =>
                 battle'.players[i].rank =
                   InitialRank - Cardinality({ k \in DOMAIN battle.players :
                                                 ~battle.players[k].isAlive })
           /\ (~battle.players[i].isAlive /\ last'.op \notin {"reset", "startGame"}) =>
                 /\ ~battle'.players[i].isAlive
                 /\ battle'.players[i].rank = battle.players[i].rank
      /\ last'.op \notin {"reset", "startGame"} =>
           DOMAIN battle'.players = DOMAIN battle.players
      /\ \A i, k \in DOMAIN battle'.players :
           ( /\ i /= k
             /\ ~battle'.players[i].isAlive
             /\ ~battle'.players[k].isAlive ) =>
               battle'.players[i].rank /= battle'.players[k].rank
    ]_<<battle, last.op>>

\* C39's case: two players are out, the first with rank 99 and the second
\* with rank 98, one of them by an attack that filled its board, and an update
\* has run since
C39_Witness ==
  /\ last.op = "update"
  /\ \E i, k \in DOMAIN battle.players :
       /\ ~battle.players[i].isAlive /\ battle.players[i].rank = InitialRank
       /\ ~battle.players[k].isAlive /\ battle.players[k].rank = InitialRank - 1
       /\ battle.players[k].gameEngine.gameOver
  /\ \E i \in DOMAIN battle.players : battle.players[i].isAlive

\* C40: once startGame() has been called and has returned, an update made
\* while at least two players are alive is not skipped: the engine of every
\* alive player has advanced when the call ends (its timers or its piece have
\* changed).
C40_TickNeverSkipped ==
  [][ ( /\ last'.op = "update"
        /\ battle.gameRunning
        /\ Cardinality({ i \in DOMAIN battle.players : battle.players[i].isAlive }) >= 2 ) =>
          \A i \in DOMAIN battle.players :
            battle.players[i].isAlive =>
              battle'.players[i].gameEngine /= battle.players[i].gameEngine
    ]_<<battle, last.op>>

====
